---- MODULE Spec2Model ----
(***************************************************************************)
(* A model of microsocks/sockssrv.c (the SocksBypass fork of MicroSocks):  *)
(* the per-client SOCKS5 state machine (clientthread), the auth policy,    *)
(* the TCP relay (copyloop) with its traffic accounting, and the UDP       *)
(* associate relay (copy_loop_udp).                                        *)
(*                                                                         *)
(* Wire messages are sequences of bytes (naturals 0..255).  C arrays are   *)
(* indexed from 0 in the source; B(buf, i) reads buf[i].                   *)
(*                                                                         *)
(* The module holds four specifications over the same variables:           *)
(*   Spec      the sessions: greeting, credentials, request, teardown      *)
(*   SpecTcp   one run of copyloop                                         *)
(*   SpecStats concurrent workers in update_traffic_stats                  *)
(*   SpecUdp   one run of copy_loop_udp                                    *)
(***************************************************************************)
EXTENDS Integers, Sequences, FiniteSets, TLC

(***************************************************************************)
(* Bounds of the model.                                                    *)
(***************************************************************************)
\* number of client sessions the acceptor accepts
NSessions == 2
\* number of distinct client IP addresses
NIps == 2
\* longest list of methods in a generated greeting
MaxMethods == 2
\* longest user name in a generated credentials message
MaxName == 2
\* most bytes one read of the TCP relay returns
MaxChunk == 2
\* most bytes the TCP relay reads in one run, both directions together
MaxBytes == 3
\* number of workers updating the traffic counters
NWorkers == 2
\* number of calls of update_traffic_stats
MaxUpdates == 3
\* most entries of the flow table of a UDP associate
MaxFlows == 2

(***************************************************************************)
(* Protocol constants of sockssrv.h.                                       *)
(***************************************************************************)
VERSION == 5
RSV == 0
CONNECT == 1
UDP_ASSOCIATE == 3
SOCKS5_IPV4 == 1
SOCKS5_DNS == 3
SOCKS5_IPV6 == 4
AM_NO_AUTH == 0
AM_USERNAME == 2
AM_INVALID == 255
EC_SUCCESS == 0
EC_GENERAL_FAILURE == 1
EC_NOT_ALLOWED == 2
EC_NET_UNREACHABLE == 3
EC_HOST_UNREACHABLE == 4
EC_CONN_REFUSED == 5
EC_TTL_EXPIRED == 6
EC_COMMAND_NOT_SUPPORTED == 7
EC_ADDRESSTYPE_NOT_SUPPORTED == 8
SS_1_CONNECTED == "SS_1_CONNECTED"
SS_2_NEED_AUTH == "SS_2_NEED_AUTH"
SS_3_AUTHED == "SS_3_AUTHED"

(***************************************************************************)
(* Bytes, buffers and C strings.                                           *)
(***************************************************************************)
MinOf(S) == CHOOSE x \in S : \A y \in S : x <= y

\* buf[i] of a C array held as a sequence
B(buf, i) == buf[i + 1]

\* buf + k: the array from its k-th element on
Drop(buf, k) == IF k >= Len(buf) THEN << >> ELSE SubSeq(buf, k + 1, Len(buf))

\* the first k elements of buf (memcpy(dst, buf, k))
Take(buf, k) == IF k <= 0 THEN << >> ELSE SubSeq(buf, 1, k)

\* what the str* functions see of a 0-terminated array: the bytes before the
\* first 0
CStr(s) ==
  LET z == {i \in 1..Len(s) : s[i] = 0}
  IN  IF z = {} THEN s ELSE SubSeq(s, 1, MinOf(z) - 1)

\* strcmp(a, b) == 0
StrEq(a, b) == CStr(a) = CStr(b)

SeqsUpTo(S, n) == UNION {[1..k -> S] : k \in 0..n}

\* the decimal digits of a byte, as characters
Digits(b) ==
  IF b >= 100 THEN <<48 + (b \div 100), 48 + ((b \div 10) % 10), 48 + (b % 10)>>
  ELSE IF b >= 10 THEN <<48 + (b \div 10), 48 + (b % 10)>>
  ELSE <<48 + b>>

\* inet_ntop(AF_INET, a): dotted decimal text
inet_ntop4(a) ==
  Digits(a[1]) \o <<46>> \o Digits(a[2]) \o <<46>> \o Digits(a[3]) \o <<46>> \o Digits(a[4])

HexDigit(h) == IF h < 10 THEN 48 + h ELSE 87 + h

\* inet_ntop(AF_INET6, a).  libc's text form (groups, "::" compression) is
\* outside the repository; it is rendered here as the 32 hexadecimal digits
\* of the address, which like libc's form is injective and holds no 0 byte.
inet_ntop6(a) ==
  [i \in 1..32 |-> IF i % 2 = 1 THEN HexDigit(a[(i + 1) \div 2] \div 16)
                                ELSE HexDigit(a[i \div 2] % 16)]

\* the value of a run of decimal digits
RECURSIVE DecimalValue(_)
DecimalValue(ds) ==
  IF ds = << >> THEN 0 ELSE DecimalValue(Take(ds, Len(ds) - 1)) * 10 + (ds[Len(ds)] - 48)

\* the parts of text between the characters sep
RECURSIVE SplitAt(_, _)
SplitAt(text, sep) ==
  LET at == {i \in 1..Len(text) : text[i] = sep}
  IN  IF at = {} THEN <<text>>
      ELSE <<Take(text, MinOf(at) - 1)>> \o SplitAt(Drop(text, MinOf(at)), sep)

\* inet_pton(AF_INET, text, &a): ok is the return value 1
inet_pton4(text) ==
  LET parts == SplitAt(text, 46)
      good(p) == /\ Len(p) \in 1..3
                 /\ \A i \in 1..Len(p) : p[i] \in 48..57
                 /\ DecimalValue(p) <= 255
  IN  IF Len(parts) = 4 /\ \A k \in 1..4 : good(parts[k])
      THEN [ok |-> TRUE, a |-> [k \in 1..4 |-> DecimalValue(parts[k])]]
      ELSE [ok |-> FALSE, a |-> << >>]

HexValue(c) == IF c \in 48..57 THEN c - 48 ELSE c - 87

\* inet_pton(AF_INET6, text, &a), of the text form of inet_ntop6 above
inet_pton6(text) ==
  IF Len(text) = 32 /\ \A i \in 1..32 : text[i] \in (48..57) \cup (97..102)
  THEN [ok |-> TRUE,
        a |-> [k \in 1..16 |-> HexValue(text[2 * k - 1]) * 16 + HexValue(text[2 * k])]]
  ELSE [ok |-> FALSE, a |-> << >>]

(***************************************************************************)
(* Auth policy: check_auth_method, check_credentials.                      *)
(***************************************************************************)
\* is_in_authed_list: some entry of the list has the client's address bytes
is_in_authed_list(list, caddr) == \E i \in 1..Len(list) : list[i] = caddr

\* a variant of add_auth_ip that adds nothing
add_auth_ip_dropped(list, a) == list

\* a variant of add_auth_ip that keeps the new entry only
add_auth_ip_replacing(list, a) == <<a>>

\* add_auth_ip: sblist_add(auth_ips, caddr)
add_auth_ip(list, a) == Append(list, a)

\* a variant of the lock that lets a thread in whoever holds it
wr_ignored(h) == TRUE

\* pthread_rwlock_rdlock / pthread_rwlock_wrlock on auth_ips_lock return
\* when no writer holds the lock (h is the writer holding it, or 0); a
\* reader holds it only within one step
wr_free(h) == h = 0

RECURSIVE auth_method_loop_noauth_first(_, _, _, _, _)
auth_method_loop_noauth_first(buf, idx, n_methods, has_user, authed) ==
  IF ~(idx < Len(buf) /\ n_methods > 0) THEN AM_INVALID
  ELSE IF B(buf, idx) = AM_NO_AUTH THEN AM_NO_AUTH
  ELSE IF B(buf, idx) = AM_USERNAME /\ has_user THEN AM_USERNAME
  ELSE auth_method_loop_noauth_first(buf, idx + 1, n_methods - 1, has_user, authed)

\* the while loop of check_auth_method, from index idx with n_methods left;
\* authed is the outcome of the locked is_in_authed_list lookup (FALSE when
\* auth_ips is NULL)
RECURSIVE auth_method_loop(_, _, _, _, _)
auth_method_loop(buf, idx, n_methods, has_user, authed) ==
  IF ~(idx < Len(buf) /\ n_methods > 0) THEN AM_INVALID
  ELSE IF B(buf, idx) = AM_NO_AUTH /\ ~has_user THEN AM_NO_AUTH
  ELSE IF B(buf, idx) = AM_NO_AUTH /\ authed THEN AM_NO_AUTH
  ELSE IF B(buf, idx) = AM_USERNAME /\ has_user THEN AM_USERNAME
  ELSE auth_method_loop(buf, idx + 1, n_methods - 1, has_user, authed)

check_auth_method(buf, has_user, authed) ==
  IF B(buf, 0) # 5 THEN AM_INVALID
  ELSE IF 1 >= Len(buf) THEN AM_INVALID
  ELSE auth_method_loop(buf, 2, B(buf, 1), has_user, authed)

\* check_credentials(buf, n) against auth_user, auth_pass
check_credentials(buf, user, pass) ==
  LET n == Len(buf) IN
  IF n < 5 THEN EC_GENERAL_FAILURE
  ELSE IF B(buf, 0) # 1 THEN EC_GENERAL_FAILURE
  ELSE LET ulen == B(buf, 1) IN
    IF n < 2 + ulen + 2 THEN EC_GENERAL_FAILURE
    ELSE LET plen == B(buf, 2 + ulen) IN
      IF n < 2 + ulen + 1 + plen THEN EC_GENERAL_FAILURE
      ELSE IF StrEq(Take(Drop(buf, 2), ulen), user)
              /\ StrEq(Take(Drop(buf, 2 + ulen + 1), plen), pass)
           THEN EC_SUCCESS
           ELSE EC_NOT_ALLOWED

(***************************************************************************)
(* Wire codec: parse_addrport, parse_socks_request_header, replies.        *)
(***************************************************************************)
\* parse_addrport(buf, n, &addrport): ret is the return value (the length
\* consumed, or minus an error code); type, addr, port are what is stored
\* in *addrport when ret > 0.  addr is the 0-terminated string strncpy
\* leaves in addrport->addr.
NoAddrport == [type |-> 0, addr |-> << >>, port |-> 0]

parse_addrport(buf) ==
  LET n == Len(buf)
      fail(ec) == [ret |-> 0 - ec, ap |-> NoAddrport]
      ok(minlen, namebuf) ==
        [ret |-> minlen,
         ap  |-> [type |-> B(buf, 0), addr |-> CStr(namebuf),
                  port |-> B(buf, minlen - 2) * 256 + B(buf, minlen - 1)]]
  IN
  IF n < 2 THEN fail(EC_GENERAL_FAILURE)
  ELSE CASE B(buf, 0) = SOCKS5_IPV6 ->
              IF n < 1 + 16 + 2 THEN fail(EC_GENERAL_FAILURE)
              ELSE ok(1 + 16 + 2, inet_ntop6(Take(Drop(buf, 1), 16)))
         [] B(buf, 0) = SOCKS5_IPV4 ->
              IF n < 1 + 4 + 2 THEN fail(EC_GENERAL_FAILURE)
              ELSE ok(1 + 4 + 2, inet_ntop4(Take(Drop(buf, 1), 4)))
         [] B(buf, 0) = SOCKS5_DNS ->
              LET l == B(buf, 1) IN
              IF n < 1 + (1 + l) + 2 THEN fail(EC_GENERAL_FAILURE)
              ELSE ok(1 + (1 + l) + 2, Take(Drop(buf, 2), l))
         [] OTHER -> fail(EC_ADDRESSTYPE_NOT_SUPPORTED)

\* parse_socks_request_header(buf, n, &cmd, &svc_addr); resolves is the
\* outcome of resolve_tcp / resolve_udp on the parsed address.
\* ret: EC_SUCCESS or minus an error code; cmd: *cmd when it was stored.
parse_socks_request_header(buf, resolves) ==
  LET n == Len(buf)
      r(ret, cmd) == [ret |-> ret, cmd |-> cmd]
  IN
  IF n < 3 THEN r(0 - EC_GENERAL_FAILURE, 0)
  ELSE IF B(buf, 0) # VERSION THEN r(0 - EC_GENERAL_FAILURE, 0)
  ELSE IF B(buf, 1) # CONNECT /\ B(buf, 1) # UDP_ASSOCIATE
       THEN r(0 - EC_COMMAND_NOT_SUPPORTED, 0)
  ELSE IF B(buf, 2) # RSV THEN r(0 - EC_GENERAL_FAILURE, B(buf, 1))
  ELSE LET pa == parse_addrport(Drop(buf, 3)) IN
    IF pa.ret < 0 THEN r(pa.ret, B(buf, 1))
    ELSE IF ~resolves THEN r(0 - EC_GENERAL_FAILURE, B(buf, 1))
    ELSE r(EC_SUCCESS, B(buf, 1))

\* send_auth_response: the two bytes written
send_auth_response(version, meth) == <<version, meth>>

\* send_error: the ten bytes written
send_error(ec) == <<5, ec, 0, 1, 0, 0, 0, 0, 0, 0>>

\* send_response(fd, ec, addr) for a bound address [af, ip, port]
send_response(ec, addr) ==
  IF addr.af = "AF_INET"
  THEN <<VERSION, ec, RSV, SOCKS5_IPV4>> \o addr.ip \o <<addr.port \div 256, addr.port % 256>>
  ELSE <<VERSION, ec, RSV, SOCKS5_IPV6>> \o addr.ip \o <<addr.port \div 256, addr.port % 256>>

\* the errno switch of connect_socks_target and udp_svc_setup
errno_to_ec(errno) ==
  CASE errno = "ETIMEDOUT" -> EC_TTL_EXPIRED
    [] errno \in {"EPROTOTYPE", "EPROTONOSUPPORT", "EAFNOSUPPORT"} -> EC_ADDRESSTYPE_NOT_SUPPORTED
    [] errno = "ECONNREFUSED" -> EC_CONN_REFUSED
    [] errno \in {"ENETDOWN", "ENETUNREACH"} -> EC_NET_UNREACHABLE
    [] errno = "EHOSTUNREACH" -> EC_HOST_UNREACHABLE
    [] OTHER -> EC_GENERAL_FAILURE

(***************************************************************************)
(* State.                                                                  *)
(***************************************************************************)
VARIABLES
  \* ---- process-wide auth policy (socks_main's option parsing) ----
  conf,        \* [has_user, user, pass, auth_once]: auth_user # NULL, the
               \* credentials, auth_ips # NULL
  auth_ips,    \* the whitelist: the sblist of client addresses
  wr_holder,   \* the session holding auth_ips_lock for writing, or 0
  \* ---- struct thread, one per accepted client ----
  pc,          \* where the worker is: "free" (not accepted yet), "recv",
               \* "wrlock", "wrheld", "wradd", "relay_tcp", "relay_udp", "done"
  state,       \* t->state
  caddr,       \* t->client.addr (the address bytes; the port is not compared)
  cfd_open,    \* whether t->client.fd is open
  done,        \* t->done
  remote,      \* the socket opened for the request: "none", "open", "closed"
  cred_ok,     \* history: check_credentials returned EC_SUCCESS in this session
  wl_noauth,   \* history: at the greeting the whitelist was enabled, held
               \* the client's address, and the client offered NoAuth
  after_auth,  \* history: the client was accepted with the whitelist
               \* enabled, after check_credentials returned EC_SUCCESS in
               \* a session of the same address
  last         \* the handler that ran in the last step: its session, its
               \* input, its result and the replies it wrote on the client
               \* socket (kind "none" after a step that is no handler)

sessVars == <<conf, auth_ips, wr_holder, pc, state, caddr, cfd_open, done,
              remote, cred_ok, wl_noauth, after_auth, last>>

VARIABLES
  \* ---- one run of copyloop(fd1, fd2) ----
  cl_pc,       \* "start", "kevent", "read", "write", "update", "returned"
  cl_events,   \* events[i..nev-1]: the idents kevent returned, not yet handled
  cl_buf,      \* buf[0..n-1], the payload of the last read
  cl_sent,     \* sent
  cl_read,     \* history: per descriptor, the bytes read from it so far
  cl_written,  \* history: per descriptor, the bytes written to it so far
  cl_credit    \* history: the sums of the arguments (uploaded, downloaded)
               \* of this run's calls of update_traffic_stats

tcpVars == <<cl_pc, cl_events, cl_buf, cl_sent, cl_read, cl_written, cl_credit>>

VARIABLES
  \* ---- the traffic counters and the workers updating them ----
  total_upload_bytes,
  total_download_bytes,
  stats_mutex, \* the worker holding stats_mutex, or 0
  ut_pc,       \* per worker, its position in update_traffic_stats
  ut_arg,      \* per worker, the arguments [uploaded, downloaded]
  ut_reg,      \* per worker, the value loaded by the += under way
  applied,     \* history: [up, down], the sums of the increments stored
  updates,     \* history: the number of calls of update_traffic_stats
  reports      \* history: the calls of update_traffic_stats_ui, in order

statVars == <<total_upload_bytes, total_download_bytes, stats_mutex, ut_pc,
              ut_arg, ut_reg, applied, updates, reports>>

VARIABLES
  \* ---- one run of copy_loop_udp(tcp_fd, udp_fd) ----
  ul_pc,        \* "start", "loop", "returned"
  udp_is_bound,
  sock_list,    \* the flow table: a sequence of [fd, addrport]
  kq_fds,       \* the descriptors registered with the kqueue
  open_fds,     \* the target sockets created and not closed
  ctl_out,      \* history: what the relay wrote on tcp_fd
  flows,        \* history: the pairs <<Address of a client datagram, the
                \* socket it was sent on>>
  out_last,     \* history: the last datagram written to udp_fd
  flow_addr,    \* history: the pairs <<socket, Address of the client datagram
                \* it was created for>>
  pins,         \* history: how often the relay connected udp_fd
  ul_last       \* the event handled in the last step: its input, the calls
                \* made for it in order, the relay before it (kind "none"
                \* after a step that handles no event)

udpVars == <<ul_pc, udp_is_bound, sock_list, kq_fds, open_fds, ctl_out, flows,
             out_last, flow_addr, pins, ul_last>>

VARIABLES
  \* ---- socks_main's loop and the worker threads it starts ----
  acc_pc,       \* where the acceptor is: "collect", "join", "malloc",
                \* "waitclient", "sblist_add", "pthread_create"
  col_i,        \* i of collect (counted from 1)
  curr,         \* the session curr points to, or 0
  threads,      \* the worker list: the sessions in it, in order
  th_pc,        \* per session, its worker: "unborn", "running", "closed"
                \* (client socket closed), "flagged" (done set), "exited"
  mem,          \* per session, its struct thread: "unalloc", "live", "freed"
  joins,        \* history: per session, how often it was joined
  frees         \* history: per session, how often it was freed after
                \* it was in the worker list

poolVars == <<acc_pc, col_i, curr, threads, th_pc, mem, joins, frees>>

vars == <<sessVars, tcpVars, statVars, udpVars, poolVars>>

Sessions == 1..NSessions
Ips == 1..NIps

(***************************************************************************)
(* Inputs of the sessions.                                                 *)
(***************************************************************************)
\* the configurations socks_main accepts: no credentials; -u a -P b;
\* -u a -P b -1
Configs ==
  { [has_user |-> FALSE, user |-> << >>, pass |-> << >>, auth_once |-> FALSE],
    [has_user |-> TRUE, user |-> <<97>>, pass |-> <<98>>, auth_once |-> FALSE],
    [has_user |-> TRUE, user |-> <<97>>, pass |-> <<98>>, auth_once |-> TRUE] }

\* what a client may send first: a version byte alone, a wrong version, and
\* every [5, N, methods...] with N and the methods independent of each other
GreetingMsgs ==
  {<<5>>, <<4, 1, 0>>}
  \cup {<<5, nm>> \o ms : nm \in 0..(MaxMethods + 1), ms \in SeqsUpTo({0, 1, 2}, MaxMethods)}

\* [1, ulen, user, plen, pass] with and without a trailing byte, and some
\* with a wrong version or lengths that exceed the message
CredMsgs ==
  {<<1, Len(u)>> \o u \o <<Len(p)>> \o p \o t :
      u \in SeqsUpTo({0, 97}, MaxName), p \in SeqsUpTo({0, 98}, MaxName),
      t \in {<< >>, <<7>>}}
  \cup {<<5, 1, 97, 1, 98>>, <<1, 3, 97, 1, 98>>, <<1, 1, 97, 4, 98>>, <<1>>}

Zeros16 == [i \in 1..16 |-> 0]

\* the address part of a request: IPv4, the IPv4 wildcard, names (one with
\* an embedded 0), IPv6, the IPv6 wildcard, an unknown type, truncated ones
AddrForms ==
  { <<1, 8, 8, 8, 8, 0, 53>>, <<1, 0, 0, 0, 0, 0, 0>>,
    <<3, 1, 120, 0, 80>>, <<3, 2, 120, 0, 0, 80>>,
    <<4>> \o Zeros16 \o <<0, 0>>, <<4>> \o [Zeros16 EXCEPT ![16] = 1] \o <<0, 80>>,
    <<2, 8, 8, 8, 8, 0, 53>>,
    <<1, 8, 8, 8>>, <<3, 5, 120, 0, 80>>, <<4>> \o Zeros16, <<9>>, << >> }

RequestMsgs ==
  {<<v, c, r>> \o a : v \in {4, 5}, c \in {1, 2, 3}, r \in {0, 1}, a \in AddrForms}
  \cup {<<5>>, <<5, 1>>}

Errnos ==
  { "ETIMEDOUT", "EPROTOTYPE", "EPROTONOSUPPORT", "EAFNOSUPPORT", "ECONNREFUSED",
    "ENETDOWN", "ENETUNREACH", "EHOSTUNREACH", "EBADF", "EMFILE" }

\* the resolver capability (resolve_tcp, resolve_udp of server.h) on the
\* address a request carries: a literal resolves to itself, a name may fail
NoResolve == [ok |-> FALSE, af |-> "AF_INET", ip |-> <<0, 0, 0, 0>>, port |-> 0]

ResolveOutcomes(buf) ==
  LET pa == parse_addrport(Drop(buf, 3)) IN
  IF Len(buf) < 3 \/ pa.ret < 0 THEN {NoResolve}
  ELSE IF pa.ap.type = SOCKS5_DNS
    THEN {NoResolve, [ok |-> TRUE, af |-> "AF_INET", ip |-> <<10, 0, 0, 9>>, port |-> pa.ap.port]}
  ELSE IF pa.ap.type = SOCKS5_IPV4
    THEN {[ok |-> TRUE, af |-> "AF_INET", ip |-> Take(Drop(buf, 4), 4), port |-> pa.ap.port]}
  ELSE {[ok |-> TRUE, af |-> "AF_INET6", ip |-> Take(Drop(buf, 4), 16), port |-> pa.ap.port]}

\* what getsockname reports for a socket of the family of addr
LocalAddr(addr) ==
  IF addr.af = "AF_INET" THEN [af |-> "AF_INET", ip |-> <<10, 0, 0, 1>>, port |-> 4000]
  ELSE [af |-> "AF_INET6", ip |-> [Zeros16 EXCEPT ![16] = 1], port |-> 4000]

\* One input of each class: of all the rows with the same Key, the rows of
\* one input.  A handler's step and what is recorded of it depend on a row
\* through its Key only, so the steps from one input of each class are the
\* steps from all inputs.
OnePerClass(rows, Key(_)) ==
  {CHOOSE r \in rows : Key(r) = k : k \in {Key(r) : r \in rows}}

(***************************************************************************)
(* What the protocol asks of a message, read off the message layouts of    *)
(* RFC 1928 and RFC 1929 and not off the code: the record of a handler     *)
(* run carries these beside what the code did.                             *)
(***************************************************************************)
\* the methods a greeting carries: the bytes after [ver, N], at most N of them
Offered(msg) ==
  IF Len(msg) < 2 THEN {}
  ELSE {msg[i] : i \in {j \in 3..Len(msg) : j <= 2 + msg[2]}}

\* a greeting has the layout [5, N, methods[N]]
GreetingWellFormed(msg) ==
  /\ Len(msg) >= 2
  /\ msg[1] = 5
  /\ Len(msg) >= 2 + msg[2]

\* a credentials message has the layout [1, ulen, user[ulen], plen, pass[plen]]
CredsWellFormed(msg) ==
  /\ Len(msg) >= 3
  /\ msg[1] = 1
  /\ Len(msg) >= 3 + msg[2]
  /\ Len(msg) >= 3 + msg[2] + msg[3 + msg[2]]

\* ... and its user and pass are, byte for byte, the configured ones
CredsMatch(msg, user, pass) ==
  /\ CredsWellFormed(msg)
  /\ SubSeq(msg, 3, 2 + msg[2]) = user
  /\ SubSeq(msg, 4 + msg[2], 3 + msg[2] + msg[3 + msg[2]]) = pass

\* the address part a has a known type and all the bytes of that type
AddrComplete(a) ==
  /\ Len(a) >= 1
  /\ \/ a[1] = SOCKS5_IPV4 /\ Len(a) >= 1 + 4 + 2
     \/ a[1] = SOCKS5_IPV6 /\ Len(a) >= 1 + 16 + 2
     \/ a[1] = SOCKS5_DNS /\ Len(a) >= 2 /\ Len(a) >= 2 + a[2] + 2

\* the reply codes of the conditions under which a request is rejected
\* before any connection attempt
RejectCodes(msg, resolves) ==
  LET a == Drop(msg, 3) IN
  (IF Len(msg) < 3 \/ msg[1] # 5 THEN {EC_GENERAL_FAILURE} ELSE {})
  \cup (IF Len(msg) >= 2 /\ msg[2] \notin {CONNECT, UDP_ASSOCIATE}
        THEN {EC_COMMAND_NOT_SUPPORTED} ELSE {})
  \cup (IF Len(msg) >= 3 /\ msg[3] # 0 THEN {EC_GENERAL_FAILURE} ELSE {})
  \cup (IF Len(a) >= 1 /\ a[1] \notin {SOCKS5_IPV4, SOCKS5_DNS, SOCKS5_IPV6}
        THEN {EC_ADDRESSTYPE_NOT_SUPPORTED} ELSE {})
  \cup (IF Len(msg) >= 3 /\ ~AddrComplete(a)
           /\ (Len(a) = 0 \/ a[1] \in {SOCKS5_IPV4, SOCKS5_DNS, SOCKS5_IPV6})
        THEN {EC_GENERAL_FAILURE} ELSE {})
  \cup (IF AddrComplete(a) /\ ~resolves THEN {EC_GENERAL_FAILURE} ELSE {})

(***************************************************************************)
(* The handlers of clientthread as functions of their input.               *)
(***************************************************************************)
\* the record of a handler run
Event(kind, s, msg, ret, cmd, env, replies, offered, wf, match, codes) ==
  [kind |-> kind, s |-> s, msg |-> msg, ret |-> ret, cmd |-> cmd, env |-> env,
   replies |-> replies, offered |-> offered, wf |-> wf, match |-> match,
   codes |-> codes]

NoEnv == [setup |-> "", errno |-> "", val |-> 0, post |-> ""]

NoLast == Event("none", 0, << >>, 0, 0, NoEnv, << >>, {}, FALSE, FALSE, {})

\* a variant of the transition that treats the selection of
\* username/password as an admission
state_after_greeting_admits_user(am, old) ==
  IF am = AM_NO_AUTH \/ am = AM_USERNAME THEN SS_3_AUTHED ELSE old

\* the state t->state takes after check_auth_method returned am
state_after_greeting(am, old) ==
  IF am = AM_NO_AUTH THEN SS_3_AUTHED
  ELSE IF am = AM_USERNAME THEN SS_2_NEED_AUTH
  ELSE old

\* case SS_1_CONNECTED on msg
GreetingRow(msg, has_user, authed) ==
  [msg |-> msg, has_user |-> has_user, authed |-> authed,
   am |-> check_auth_method(msg, has_user, authed), offered |-> Offered(msg),
   wf |-> GreetingWellFormed(msg)]

GreetingKey(r) == <<r.has_user, r.authed, r.am, r.offered, r.wf>>

GreetingRows ==
  OnePerClass({GreetingRow(m, hu, au) : m \in GreetingMsgs, hu \in BOOLEAN, au \in BOOLEAN},
              GreetingKey)

\* case SS_2_NEED_AUTH on msg
CredRow(msg, user, pass) ==
  [msg |-> msg, user |-> user, pass |-> pass,
   ret |-> check_credentials(msg, user, pass),
   wf |-> CredsWellFormed(msg), match |-> CredsMatch(msg, user, pass)]

CredKey(r) == <<r.user, r.pass, r.ret, r.wf, r.match>>

CredRows ==
  OnePerClass({CredRow(m, c.user, c.pass) : m \in CredMsgs, c \in {d \in Configs : d.has_user}},
              CredKey)

\* connect_socks_target when socket() or connect() fails with errno
connect_socks_target_fail(errno) == 0 - errno_to_ec(errno)

\* the test of udp_svc_setup that decides between connect and bind
IsWildcard(addr) ==
  ~ (\/ (addr.af = "AF_INET" /\ addr.ip # <<0, 0, 0, 0>>)
     \/ (addr.af = "AF_INET6" /\ addr.ip # Zeros16))

\* the return value of udp_svc_setup: minus the code of the errno when
\* socket() fails, -1 when connect or bind fails, getaddrinfo's non-zero
\* code when it fails, the new socket otherwise
udp_svc_setup(env) ==
  CASE env.setup = "socket" -> 0 - errno_to_ec(env.errno)
    [] env.setup = "connect" -> 0 - 1
    [] env.setup = "getaddrinfo" -> env.val
    [] env.setup = "bind" -> 0 - 1
    [] OTHER -> env.val

\* What the system calls of a request may do.  setup: the call of
\* connect_socks_target or udp_svc_setup that fails (with errno, or with
\* getaddrinfo's code val), or "ok" (val is the new descriptor); post: what
\* follows when the setup returned a descriptor: getsockname fails,
\* send_response returns -1, or both succeed ("ok").
PostSteps == {"getsockname", "send_response", "ok"}

ConnectEnvs ==
  {[setup |-> st, errno |-> e, val |-> 0, post |-> ""] : st \in {"socket", "connect"}, e \in Errnos}
  \cup {[setup |-> "ok", errno |-> "", val |-> 9, post |-> p] : p \in PostSteps}

\* errnos of a failing connect or bind of the UDP socket
UdpErrnos == {"ENETUNREACH", "EAFNOSUPPORT", "EADDRINUSE"}

UdpEnvs(addr) ==
  {[setup |-> "socket", errno |-> e, val |-> 0, post |-> ""] : e \in Errnos}
  \cup (IF IsWildcard(addr)
        THEN {[setup |-> "bind", errno |-> e, val |-> 0, post |-> ""] : e \in UdpErrnos}
             \cup {[setup |-> "getaddrinfo", errno |-> "", val |-> 6, post |-> p] : p \in PostSteps}
        ELSE {[setup |-> "connect", errno |-> e, val |-> 0, post |-> ""] : e \in UdpErrnos})
  \cup {[setup |-> "ok", errno |-> "", val |-> 9, post |-> p] : p \in PostSteps}

EnvsOf(msg, res) ==
  LET h == parse_socks_request_header(msg, res.ok) IN
  IF h.ret # EC_SUCCESS THEN {NoEnv}
  ELSE IF h.cmd = CONNECT THEN ConnectEnvs
  ELSE UdpEnvs(res)

\* a variant of connect_after_target that starts the relay although
\* send_response returned -1
connect_after_target_relays_unreplied(post, addr) ==
  IF post = "getsockname" THEN [replies |-> << >>, remote |-> "open", relay |-> "none"]
  ELSE IF post = "send_response" THEN [replies |-> << >>, remote |-> "open", relay |-> "tcp"]
  ELSE [replies |-> <<send_response(EC_SUCCESS, addr)>>, remote |-> "open", relay |-> "tcp"]

\* clientthread after connect_socks_target returned remotefd: getsockname
\* fails (breakloop); send_response returns -1 (close(remotefd), breakloop);
\* or the reply is written and copyloop is called.  addr is the local
\* address getsockname reports.
connect_after_target(post, addr) ==
  IF post = "getsockname" THEN [replies |-> << >>, remote |-> "open", relay |-> "none"]
  ELSE IF post = "send_response" THEN [replies |-> << >>, remote |-> "closed", relay |-> "none"]
  ELSE [replies |-> <<send_response(EC_SUCCESS, addr)>>, remote |-> "open", relay |-> "tcp"]

\* case SS_3_AUTHED on msg, up to the relay or to breakloop.
\*   ret     the last value of ret (CONNECT) or fd (UDP_ASSOCIATE)
\*   replies what was written on the client socket
\*   remote  the socket opened for the request: "none"; "open"; "closed";
\*           "lost" when it is open and the session holds no descriptor of it
\*   relay   the relay that starts: "tcp", "udp", or "none" (breakloop)
authed_step(msg, res, env) ==
  LET h == parse_socks_request_header(msg, res.ok)
      out(ret, replies, rem, relay) ==
        [ret |-> ret, cmd |-> h.cmd, replies |-> replies, remote |-> rem, relay |-> relay]
  IN
  IF h.ret # EC_SUCCESS THEN out(h.ret, << >>, "none", "none")
  ELSE IF h.cmd = CONNECT THEN
    IF env.setup # "ok"
    THEN LET ret == connect_socks_target_fail(env.errno)
         IN  out(ret, <<send_error(ret * (0 - 1))>>, "none", "none")
    ELSE LET c == connect_after_target(env.post, LocalAddr(res))
         IN  out(env.val, c.replies, c.remote, c.relay)
  ELSE
    LET fd == udp_svc_setup(env)
        sock == IF env.setup = "socket" THEN "none"
                ELSE IF env.setup = "ok" THEN "open" ELSE "lost"
    IN
    IF fd <= 0 THEN out(fd, <<send_error(fd * (0 - 1))>>, sock, "none")
    ELSE IF env.post = "getsockname" THEN out(fd, << >>, sock, "none")
    ELSE IF env.post = "send_response"
      THEN out(fd, << >>, IF sock = "open" THEN "closed" ELSE sock, "none")
    ELSE out(fd, <<send_response(EC_SUCCESS, LocalAddr(res))>>, sock, "udp")

RequestRow(msg, res, env) ==
  [msg |-> msg, env |-> env, out |-> authed_step(msg, res, env),
   codes |-> RejectCodes(msg, res.ok)]

RequestKey(r) == <<r.env, r.out, r.codes>>

\* every request with every outcome of the resolver and of the system calls
RequestInputs ==
  UNION { UNION { {<<m, r, e>> : e \in EnvsOf(m, r)} : r \in ResolveOutcomes(m) }
          : m \in RequestMsgs }

RequestRows ==
  OnePerClass({RequestRow(i[1], i[2], i[3]) : i \in RequestInputs}, RequestKey)

(***************************************************************************)
(* The sessions: socks_main's accept and clientthread.                     *)
(***************************************************************************)
\* socks_main before the first accept, started with the options c
SessionsInit(c) ==
  /\ conf = c
  /\ auth_ips = << >>
  /\ wr_holder = 0
  /\ pc = [s \in Sessions |-> "free"]
  /\ state = [s \in Sessions |-> SS_1_CONNECTED]
  /\ caddr = [s \in Sessions |-> 1]
  /\ cfd_open = [s \in Sessions |-> FALSE]
  /\ done = [s \in Sessions |-> FALSE]
  /\ remote = [s \in Sessions |-> "none"]
  /\ cred_ok = [s \in Sessions |-> FALSE]
  /\ wl_noauth = [s \in Sessions |-> FALSE]
  /\ after_auth = [s \in Sessions |-> FALSE]
  /\ last = NoLast

Fds == {"fd1", "fd2"}

\* copyloop(fd1, fd2) is entered
CopyloopInit ==
  /\ cl_pc = "start"
  /\ cl_events = << >>
  /\ cl_buf = << >>
  /\ cl_sent = 0
  /\ cl_read = [fd \in Fds |-> << >>]
  /\ cl_written = [fd \in Fds |-> << >>]
  /\ cl_credit = [up |-> 0, down |-> 0]

Workers == 1..NWorkers

\* the static initializers of the counters and of stats_mutex
StatsInit ==
  /\ total_upload_bytes = 0
  /\ total_download_bytes = 0
  /\ stats_mutex = 0
  /\ ut_pc = [w \in Workers |-> "idle"]
  /\ ut_arg = [w \in Workers |-> [uploaded |-> 0, downloaded |-> 0]]
  /\ ut_reg = [w \in Workers |-> 0]
  /\ applied = [up |-> 0, down |-> 0]
  /\ updates = 0
  /\ reports = << >>

\* copy_loop_udp(tcp_fd, udp_fd) is entered
CopyLoopUdpInit ==
  /\ ul_pc = "start"
  /\ udp_is_bound = TRUE
  /\ sock_list = << >>
  /\ kq_fds = {}
  /\ open_fds = {}
  /\ ctl_out = << >>
  /\ flows = {}
  /\ out_last = << >>
  /\ flow_addr = {}
  /\ pins = 0
  /\ ul_last = [kind |-> "none", buf |-> << >>, res |-> "", fd |-> 0, ops |-> << >>,
                pre |-> [bound |-> TRUE, list |-> << >>, open |-> {}]]

\* socks_main entering while(1): the worker list is empty
PoolInit ==
  /\ acc_pc = "collect"
  /\ col_i = 1
  /\ curr = 0
  /\ threads = << >>
  /\ th_pc = [s \in Sessions |-> "unborn"]
  /\ mem = [s \in Sessions |-> "unalloc"]
  /\ joins = [s \in Sessions |-> 0]
  /\ frees = [s \in Sessions |-> 0]

Init ==
  /\ \E c \in Configs : SessionsInit(c)
  /\ CopyloopInit
  /\ StatsInit
  /\ CopyLoopUdpInit
  /\ PoolInit

\* The record of a handler run stands for one step: it is taken note of and
\* cleared (Note) before the next step of any session.  Note changes nothing
\* of the program's state.
Noted == last.kind = "none"

Note ==
  /\ ~Noted
  /\ last' = NoLast
  /\ UNCHANGED <<conf, auth_ips, wr_holder, pc, state, caddr, cfd_open, done,
                 remote, cred_ok, wl_noauth, after_auth>>
  /\ UNCHANGED <<tcpVars, statVars, udpVars, poolVars>>

\* server_waitclient returns a client and pthread_create starts clientthread,
\* which sets t->state = SS_1_CONNECTED and enters its recv loop.  Addresses
\* are compared for equality only, so a client's address is that of an
\* earlier client or the first one no earlier client had.
Accept(s) ==
  /\ Noted
  /\ pc[s] = "free"
  /\ \A r \in Sessions : r < s => pc[r] # "free"
  /\ \E a \in Ips :
       /\ \A b \in 1..(a - 1) : \E r \in Sessions : r < s /\ caddr[r] = b
       /\ caddr' = [caddr EXCEPT ![s] = a]
       /\ after_auth' = [after_auth EXCEPT ![s] =
            conf.auth_once /\ \E t \in Sessions : cred_ok[t] /\ caddr[t] = a]
  /\ pc' = [pc EXCEPT ![s] = "recv"]
  /\ state' = [state EXCEPT ![s] = SS_1_CONNECTED]
  /\ cfd_open' = [cfd_open EXCEPT ![s] = TRUE]
  /\ last' = NoLast
  /\ UNCHANGED <<conf, auth_ips, wr_holder, done, remote, cred_ok, wl_noauth>>
  /\ UNCHANGED <<tcpVars, statVars, udpVars, poolVars>>

\* a variant of breakloop that goes back to recv
Breakloop_keeps_receiving(s) ==
  /\ pc' = [pc EXCEPT ![s] = "recv"]
  /\ UNCHANGED <<cfd_open, done>>

\* breakloop: close(t->client.fd); t->done = 1.  No step of another session
\* reads either, so the two are one step here.
Breakloop(s) ==
  /\ pc' = [pc EXCEPT ![s] = "done"]
  /\ cfd_open' = [cfd_open EXCEPT ![s] = FALSE]
  /\ done' = [done EXCEPT ![s] = TRUE]

\* recv returns 0 or -1: the while loop ends
RecvEnd(s) ==
  /\ Noted
  /\ pc[s] = "recv"
  /\ Breakloop(s)
  /\ last' = Event("recv_end", s, << >>, 0, 0, NoEnv, << >>, {}, FALSE, FALSE, {})
  /\ UNCHANGED <<conf, auth_ips, wr_holder, state, caddr, remote, cred_ok, wl_noauth, after_auth>>
  /\ UNCHANGED <<tcpVars, statVars, udpVars, poolVars>>

\* case SS_1_CONNECTED.  The lookup in the whitelist is done holding
\* auth_ips_lock for reading, so not while a writer holds it.
Greeting(s) ==
  /\ Noted
  /\ pc[s] = "recv" /\ state[s] = SS_1_CONNECTED
  /\ conf.auth_once => wr_free(wr_holder)
  /\ \E r \in GreetingRows :
       /\ r.has_user = conf.has_user
       /\ r.authed = (conf.auth_once /\ is_in_authed_list(auth_ips, caddr[s]))
       /\ state' = [state EXCEPT ![s] = state_after_greeting(r.am, @)]
       /\ last' = Event("greeting", s, r.msg, r.am, 0, NoEnv,
                        <<send_auth_response(5, r.am)>>, r.offered, r.wf, FALSE, {})
       /\ wl_noauth' = [wl_noauth EXCEPT ![s] = r.authed /\ AM_NO_AUTH \in r.offered]
       /\ IF r.am = AM_INVALID THEN Breakloop(s) ELSE UNCHANGED <<pc, cfd_open, done>>
  /\ UNCHANGED <<conf, auth_ips, wr_holder, caddr, remote, cred_ok, after_auth>>
  /\ UNCHANGED <<tcpVars, statVars, udpVars, poolVars>>

\* case SS_2_NEED_AUTH, up to the request for the write lock
Credentials(s) ==
  /\ Noted
  /\ pc[s] = "recv" /\ state[s] = SS_2_NEED_AUTH
  /\ \E r \in CredRows :
       /\ r.user = conf.user /\ r.pass = conf.pass
       /\ last' = Event("creds", s, r.msg, r.ret, 0, NoEnv,
                        <<send_auth_response(1, r.ret)>>, {}, r.wf, r.match, {})
       /\ IF r.ret # EC_SUCCESS
          THEN /\ Breakloop(s)
               /\ UNCHANGED <<state, cred_ok>>
          ELSE /\ state' = [state EXCEPT ![s] = SS_3_AUTHED]
               /\ cred_ok' = [cred_ok EXCEPT ![s] = TRUE]
               /\ pc' = [pc EXCEPT ![s] = IF conf.auth_once THEN "wrlock" ELSE "recv"]
               /\ UNCHANGED <<cfd_open, done>>
  /\ UNCHANGED <<conf, auth_ips, wr_holder, caddr, remote, wl_noauth, after_auth>>
  /\ UNCHANGED <<tcpVars, statVars, udpVars, poolVars>>

\* pthread_rwlock_wrlock(&auth_ips_lock) returns 0
AcquireWr(s) ==
  /\ Noted
  /\ pc[s] = "wrlock"
  /\ wr_free(wr_holder)
  /\ wr_holder' = s
  /\ pc' = [pc EXCEPT ![s] = "wrheld"]
  /\ last' = NoLast
  /\ UNCHANGED <<conf, auth_ips, state, caddr, cfd_open, done, remote, cred_ok, wl_noauth,
                 after_auth>>
  /\ UNCHANGED <<tcpVars, statVars, udpVars, poolVars>>

\* if(!is_in_authed_list(&t->client.addr)), holding the lock: on to
\* add_auth_ip, or pthread_rwlock_unlock when the address is in the list
RememberClient(s) ==
  /\ Noted
  /\ pc[s] = "wrheld"
  /\ IF is_in_authed_list(auth_ips, caddr[s])
     THEN /\ wr_holder' = 0
          /\ pc' = [pc EXCEPT ![s] = "recv"]
     ELSE /\ pc' = [pc EXCEPT ![s] = "wradd"]
          /\ UNCHANGED wr_holder
  /\ last' = NoLast
  /\ UNCHANGED <<conf, auth_ips, state, caddr, cfd_open, done, remote, cred_ok, wl_noauth,
                 after_auth>>
  /\ UNCHANGED <<tcpVars, statVars, udpVars, poolVars>>

\* add_auth_ip(&t->client.addr); pthread_rwlock_unlock(&auth_ips_lock)
AddAuthIp(s) ==
  /\ Noted
  /\ pc[s] = "wradd"
  /\ auth_ips' = add_auth_ip(auth_ips, caddr[s])
  /\ wr_holder' = 0
  /\ pc' = [pc EXCEPT ![s] = "recv"]
  /\ last' = NoLast
  /\ UNCHANGED <<conf, state, caddr, cfd_open, done, remote, cred_ok, wl_noauth, after_auth>>
  /\ UNCHANGED <<tcpVars, statVars, udpVars, poolVars>>

\* case SS_3_AUTHED, up to the start of the relay or to breakloop
Request(s) ==
  /\ Noted
  /\ pc[s] = "recv" /\ state[s] = SS_3_AUTHED
  /\ \E r \in RequestRows :
       /\ last' = Event("request", s, r.msg, r.out.ret, r.out.cmd, r.env, r.out.replies,
                        {}, FALSE, FALSE, r.codes)
       /\ remote' = [remote EXCEPT ![s] = r.out.remote]
       /\ IF r.out.relay = "none"
          THEN Breakloop(s)
          ELSE /\ pc' = [pc EXCEPT ![s] = "relay_" \o r.out.relay]
               /\ UNCHANGED <<cfd_open, done>>
  /\ UNCHANGED <<conf, auth_ips, wr_holder, state, caddr, cred_ok, wl_noauth, after_auth>>
  /\ UNCHANGED <<tcpVars, statVars, udpVars, poolVars>>

\* copyloop or copy_loop_udp returns: close(remotefd) or close(fd), breakloop
RelayReturn(s) ==
  /\ Noted
  /\ pc[s] \in {"relay_tcp", "relay_udp"}
  /\ remote' = [remote EXCEPT ![s] = IF @ = "open" THEN "closed" ELSE @]
  /\ last' = Event("relay_end", s, << >>, 0, 0, NoEnv, << >>, {}, FALSE, FALSE, {})
  /\ Breakloop(s)
  /\ UNCHANGED <<conf, auth_ips, wr_holder, state, caddr, cred_ok, wl_noauth, after_auth>>
  /\ UNCHANGED <<tcpVars, statVars, udpVars, poolVars>>

Next ==
  \/ Note
  \/ \E s \in Sessions :
    \/ Accept(s)
    \/ RecvEnd(s)
    \/ Greeting(s)
    \/ Credentials(s)
    \/ AcquireWr(s)
    \/ RememberClient(s)
    \/ AddAuthIp(s)
    \/ Request(s)
    \/ RelayReturn(s)

Spec == Init /\ [][Next]_vars

(***************************************************************************)
(* Properties of the sessions, checked under Spec.                         *)
(***************************************************************************)
\* the session of the last handler run has reached breakloop: its client
\* socket is closed and it is marked done
Terminated(s) == ~cfd_open[s] /\ done[s] /\ pc[s] = "done"

\* C1: when credentials are configured, a session is in AUTHED only if in
\* that session check_credentials returned EC_SUCCESS, or at its greeting
\* the whitelist was enabled and held the client's address and the client
\* offered NoAuth; and a greeting of a client that is not whitelisted is
\* never answered with NoAuth, whatever it offers.
C1_AuthedOnlyByCredentialsOrWhitelist ==
  /\ \A s \in Sessions :
       conf.has_user /\ state[s] = SS_3_AUTHED => cred_ok[s] \/ wl_noauth[s]
  /\ last.kind = "greeting" /\ conf.has_user /\ last.ret = AM_NO_AUTH
       => wl_noauth[last.s]

\* a session admitted without credentials, by the whitelist alone
C1_Witness ==
  \E s \in Sessions :
    /\ conf.has_user /\ state[s] = SS_3_AUTHED
    /\ wl_noauth[s] /\ ~cred_ok[s]
    /\ \E t \in Sessions : t # s /\ cred_ok[t]

\* C2: a greeting in SS_1_CONNECTED is answered with the one response
\* [5, m], m being the selected method: with m = 0 the session is in AUTHED,
\* with m = 2 in NEED_AUTH, both with the client socket open; with m = 255
\* the client socket is closed and the session marked done.  When
\* credentials are configured and the client offers NoAuth only (and is not
\* admitted by the whitelist), m is 255.
C2_GreetingAnsweredAndMoves ==
  last.kind = "greeting" =>
    LET s == last.s IN
    /\ last.replies = << <<5, last.ret>> >>
    /\ last.ret \in {0, 2, 255}
    /\ last.ret = 0 => state[s] = SS_3_AUTHED /\ cfd_open[s] /\ ~done[s]
    /\ last.ret = 2 => state[s] = SS_2_NEED_AUTH /\ cfd_open[s] /\ ~done[s]
    /\ last.ret = 255 => Terminated(s) /\ state[s] = SS_1_CONNECTED
    /\ conf.has_user /\ last.offered = {AM_NO_AUTH} /\ ~wl_noauth[s]
         => last.ret = 255

\* credentials are configured and the client offered NoAuth only: 05 FF
C2_Witness ==
  /\ last.kind = "greeting" /\ conf.has_user /\ last.offered = {AM_NO_AUTH}
  /\ last.replies = << <<5, 255>> >> /\ Terminated(last.s)

\* C3: a credentials message in SS_2_NEED_AUTH whose user and pass are,
\* byte for byte, the configured ones is answered [1, 0] and the session is
\* in AUTHED (about to remember the client when the whitelist is enabled);
\* any other is answered [1, code] with code # 0, code = 2 when the message
\* is well-formed, and the session has terminated without reaching AUTHED.
C3_CredentialsAnswered ==
  last.kind = "creds" =>
    LET s == last.s IN
    /\ Len(last.replies) = 1 /\ Len(last.replies[1]) = 2 /\ last.replies[1][1] = 1
    /\ IF last.match
       THEN /\ last.replies[1][2] = 0
            /\ state[s] = SS_3_AUTHED
            /\ conf.auth_once => pc[s] = "wrlock"
       ELSE /\ last.replies[1][2] # 0
            /\ last.wf => last.replies[1][2] = EC_NOT_ALLOWED
            /\ state[s] # SS_3_AUTHED
            /\ Terminated(s)

\* C4: a request in SS_3_AUTHED that yields a non-Success code is answered
\* with exactly one reply, and the client socket is closed.
C4_OneReplyPerFailedRequest ==
  last.kind = "request" /\ last.ret < 0 =>
    /\ Len(last.replies) = 1
    /\ Terminated(last.s)

\* C5: a request rejected before any connection attempt is answered with
\* the reply code of (one of) its condition(s) - 7 for a command other than
\* CONNECT and UDP_ASSOCIATE, 8 for an unknown address type, 1 for a wrong
\* version, a non-zero reserved byte, a truncated address or a name that
\* does not resolve - and the connection is closed.
C5_RejectionCodes ==
  last.kind = "request" /\ last.codes # {} =>
    /\ Len(last.replies) = 1
    /\ last.replies[1][2] \in last.codes
    /\ Terminated(last.s)

\* the last step was a well-formed greeting that offers NoAuth and no
\* other method
NoAuthOnly == last.kind = "greeting" /\ last.wf /\ last.offered = {AM_NO_AUTH}

\* a session from address a passed the credentials check and is through
\* with remembering a (it neither waits for nor holds the write lock)
Remembered(a) ==
  \E t \in Sessions :
    cred_ok[t] /\ caddr[t] = a /\ pc[t] \notin {"wrlock", "wrheld", "wradd"}

C19_ByteExactCredentials ==
  last.kind = "creds" =>
    /\ (last.ret = EC_SUCCESS) <=> last.match
    /\ (last.wf /\ ~last.match) => last.ret = EC_NOT_ALLOWED

\* C20: a greeting is accepted (answered with NoAuth or UserPass) only if
\* its version byte is 5 and it holds at least 2 + N bytes; on a greeting
\* that is not so the session is in neither AUTHED nor NEED_AUTH and has
\* terminated.
C20_ShortGreetingRejected ==
  last.kind = "greeting" =>
    /\ last.ret \in {AM_NO_AUTH, AM_USERNAME} => last.wf
    /\ ~last.wf =>
         /\ state[last.s] \notin {SS_3_AUTHED, SS_2_NEED_AUTH}
         /\ Terminated(last.s)

\* the reply code section 7 assigns to an errno ("" when the failing call
\* sets none)
Section7Code(errno) ==
  CASE errno = "ETIMEDOUT" -> 6
    [] errno = "ECONNREFUSED" -> 5
    [] errno \in {"ENETUNREACH", "ENETDOWN"} -> 3
    [] errno = "EHOSTUNREACH" -> 4
    [] errno \in {"EAFNOSUPPORT", "EPROTOTYPE", "EPROTONOSUPPORT"} -> 8
    [] OTHER -> 1

\* the last step was a request whose target side could not be set up: a
\* call of connect_socks_target or of udp_svc_setup failed
SetupFailed == last.kind = "request" /\ last.env.setup \notin {"", "ok"}

\* C21: a request whose target setup fails (socket or connect for CONNECT;
\* socket, connect, getaddrinfo or bind for UDP_ASSOCIATE) is answered with
\* one reply whose code is not 0 and is the section 7 code of the errno,
\* and no relay follows: the session has terminated.
C21_SetupFailureReplied ==
  SetupFailed =>
    /\ Len(last.replies) = 1
    /\ last.replies[1][2] # EC_SUCCESS
    /\ last.replies[1][2] = Section7Code(last.env.errno)
    /\ Terminated(last.s)

\* a reply [5, 0, 0, bound_addr] with an IPv4 or IPv6 bound address
IsSuccessReply(r) ==
  /\ Len(r) \in {10, 22}
  /\ Take(r, 3) = <<5, 0, 0>>
  /\ r[4] = (IF Len(r) = 10 THEN SOCKS5_IPV4 ELSE SOCKS5_IPV6)

\* the last step was a CONNECT request that passed the parser, so that
\* connect_socks_target was called
ConnectRequest == last.kind = "request" /\ last.cmd = CONNECT /\ last.env.setup # ""

\* what a CONNECT request leads to: a success reply is written only when the
\* connection to the target succeeded, and then it is the one reply and
\* the relay has not yet begun; when writing it fails, nothing is written,
\* the target socket is closed and the session has terminated
ConnectReplied ==
  ConnectRequest =>
    LET s == last.s IN
    /\ (\E i \in 1..Len(last.replies) : last.replies[i][2] = EC_SUCCESS) =>
         /\ last.env.setup = "ok"
         /\ Len(last.replies) = 1 /\ IsSuccessReply(last.replies[1])
         /\ pc[s] = "relay_tcp" /\ remote[s] = "open"
    /\ (last.env.setup = "ok" /\ last.env.post = "send_response") =>
         /\ last.replies = << >>
         /\ remote[s] = "closed"
         /\ Terminated(s)

\* the TCP relay of a session begins only in the step that wrote the
\* success reply of its CONNECT request
RelayOnlyAfterReply ==
  \A s \in Sessions :
    (pc'[s] = "relay_tcp" /\ pc[s] # "relay_tcp") =>
      /\ last'.kind = "request" /\ last'.s = s /\ last'.cmd = CONNECT
      /\ last'.env.setup = "ok"
      /\ Len(last'.replies) = 1 /\ IsSuccessReply(last'.replies[1])

\* C22: for CONNECT the success reply [5, 0, 0, bound_addr] is sent only
\* after the connection to the target succeeded and before the relay moves
\* any byte (the relay begins only after the reply was written); when the
\* reply cannot be written, no relay runs and the target socket is closed.
C22_ReplyBetweenConnectAndRelay == [] ConnectReplied /\ [][RelayOnlyAfterReply]_vars

\* the success reply of a CONNECT was written and the relay is about to run
C22_Witness ==
  /\ ConnectRequest
  /\ last.env.setup = "ok" /\ last.env.post = "ok"
  /\ IsSuccessReply(last.replies[1])
  /\ pc[last.s] = "relay_tcp"

\* C25: when done is set, the socket the session opened for its request
\* (the CONNECT target socket, the UDP relay socket) has been closed, on
\* every path: a failed getsockname, a failed send_response and a failed
\* UDP setup after socket() included.
C25_RequestSocketClosedBeforeDone ==
  \A s \in Sessions : done[s] => remote[s] \in {"none", "closed"}

(***************************************************************************)
(* The TCP relay: one run of copyloop(fd1, fd2), fd1 the client socket a   *)
(* and fd2 the target socket b.                                            *)
(***************************************************************************)
Other(fd) == IF fd = "fd1" THEN "fd2" ELSE "fd1"

\* what one read may return
Chunks == SeqsUpTo({0, 1}, MaxChunk) \ {<< >>}

\* what kevent may return: one event or both, in either order
EventLists == {<<"fd1">>, <<"fd2">>, <<"fd1", "fd2">>, <<"fd2", "fd1">>}

\* a variant of the write loop's step that takes every write for a whole one
sent_after_write_whole(sent, m, n) == n

\* sent += m
sent_after_write(sent, m, n) == sent + m

\* update_traffic_stats(uploaded, downloaded) run by the only worker there
\* is: lock, both +=, the call of update_traffic_stats_ui, unlock
update_traffic_stats(uploaded, downloaded) ==
  /\ total_upload_bytes' = total_upload_bytes + uploaded
  /\ total_download_bytes' = total_download_bytes + downloaded
  /\ applied' = [up |-> applied.up + uploaded, down |-> applied.down + downloaded]
  /\ updates' = updates + 1
  /\ reports' = Append(reports, [up |-> total_upload_bytes', down |-> total_download_bytes'])
  /\ UNCHANGED <<stats_mutex, ut_pc, ut_arg, ut_reg>>

\* kqueue() returns -1, or the kevent() that registers fd1 and fd2 does
CopyloopSetupFails ==
  /\ cl_pc = "start"
  /\ cl_pc' = "returned"
  /\ UNCHANGED <<cl_events, cl_buf, cl_sent, cl_read, cl_written, cl_credit>>
  /\ UNCHANGED <<sessVars, statVars, udpVars, poolVars>>

\* both succeed: the while loop is entered
CopyloopSetup ==
  /\ cl_pc = "start"
  /\ cl_pc' = "kevent"
  /\ UNCHANGED <<cl_events, cl_buf, cl_sent, cl_read, cl_written, cl_credit>>
  /\ UNCHANGED <<sessVars, statVars, udpVars, poolVars>>

\* kevent returns 0, or -1 with an errno other than EINTR and EAGAIN (with
\* these the loop continues: no change): break, close(kq)
KeventBreak ==
  /\ cl_pc = "kevent"
  /\ cl_pc' = "returned"
  /\ UNCHANGED <<cl_events, cl_buf, cl_sent, cl_read, cl_written, cl_credit>>
  /\ UNCHANGED <<sessVars, statVars, udpVars, poolVars>>

\* kevent returns nev > 0 events
KeventReady ==
  /\ cl_pc = "kevent"
  /\ \E ev \in EventLists : cl_events' = ev
  /\ cl_pc' = "read"
  /\ UNCHANGED <<cl_buf, cl_sent, cl_read, cl_written, cl_credit>>
  /\ UNCHANGED <<sessVars, statVars, udpVars, poolVars>>

\* read(infd, ..) returns n <= 0: close(kq); return
ReadEnd ==
  /\ cl_pc = "read"
  /\ cl_pc' = "returned"
  /\ UNCHANGED <<cl_events, cl_buf, cl_sent, cl_read, cl_written, cl_credit>>
  /\ UNCHANGED <<sessVars, statVars, udpVars, poolVars>>

\* read(infd, buf, sizeof(buf)) returns n > 0 bytes; sent = 0
ReadData ==
  /\ cl_pc = "read"
  /\ \E chunk \in Chunks :
       /\ Len(cl_read["fd1"]) + Len(cl_read["fd2"]) + Len(chunk) <= MaxBytes
       /\ cl_buf' = chunk
       /\ cl_read' = [cl_read EXCEPT ![Head(cl_events)] = @ \o chunk]
  /\ cl_sent' = 0
  /\ cl_pc' = "write"
  /\ UNCHANGED <<cl_events, cl_written, cl_credit>>
  /\ UNCHANGED <<sessVars, statVars, udpVars, poolVars>>

\* write(outfd, buf + sent, n - sent) returns m < 0: close(kq); return
WriteFail ==
  /\ cl_pc = "write"
  /\ cl_pc' = "returned"
  /\ UNCHANGED <<cl_events, cl_buf, cl_sent, cl_read, cl_written, cl_credit>>
  /\ UNCHANGED <<sessVars, statVars, udpVars, poolVars>>

\* write(outfd, buf + sent, n - sent) takes m >= 0 bytes; sent += m; the
\* while loop ends when sent >= n
Write ==
  /\ cl_pc = "write"
  /\ \E m \in 0..(Len(cl_buf) - cl_sent) :
       /\ cl_written' = [cl_written EXCEPT ![Other(Head(cl_events))] =
                           @ \o SubSeq(cl_buf, cl_sent + 1, cl_sent + m)]
       /\ cl_sent' = sent_after_write(cl_sent, m, Len(cl_buf))
  /\ cl_pc' = IF cl_sent' < Len(cl_buf) THEN "write" ELSE "update"
  /\ UNCHANGED <<cl_events, cl_buf, cl_read, cl_credit>>
  /\ UNCHANGED <<sessVars, statVars, udpVars, poolVars>>

\* update_traffic_stats(n, 0) for infd = fd1, update_traffic_stats(0, n)
\* otherwise; then the next event, or the next kevent
UpdateStats ==
  /\ cl_pc = "update"
  /\ LET n == Len(cl_buf)
         up == IF Head(cl_events) = "fd1" THEN n ELSE 0
         down == IF Head(cl_events) = "fd1" THEN 0 ELSE n
     IN  /\ update_traffic_stats(up, down)
         /\ cl_credit' = [up |-> cl_credit.up + up, down |-> cl_credit.down + down]
  /\ cl_events' = Tail(cl_events)
  /\ cl_pc' = IF Tail(cl_events) = << >> THEN "kevent" ELSE "read"
  /\ UNCHANGED <<cl_buf, cl_sent, cl_read, cl_written>>
  /\ UNCHANGED <<sessVars, udpVars, poolVars>>

\* no session is looked at: a relay, or the counters, from their start
RelaysInit ==
  /\ SessionsInit(CHOOSE c \in Configs : ~c.has_user)
  /\ CopyloopInit
  /\ StatsInit
  /\ CopyLoopUdpInit
  /\ PoolInit

TcpNext ==
  \/ CopyloopSetupFails
  \/ CopyloopSetup
  \/ KeventBreak
  \/ KeventReady
  \/ ReadEnd
  \/ ReadData
  \/ WriteFail
  \/ Write
  \/ UpdateStats

SpecTcp == RelaysInit /\ [][TcpNext]_vars

IsPrefix(p, q) == Len(p) <= Len(q) /\ SubSeq(q, 1, Len(p)) = p

\* C7: in each direction the bytes written to the destination are at every
\* moment a prefix, in order, of the bytes read from the source; while the
\* payload of a read is being written, what is missing is exactly its
\* unsent rest; and whenever a read is performed, all that was read before
\* has been written.
C7_InOrderAndWholeReads ==
  /\ \A fd \in Fds : IsPrefix(cl_written[Other(fd)], cl_read[fd])
  /\ cl_pc = "write" =>
       LET infd == Head(cl_events) IN
       /\ cl_read[infd] =
            cl_written[Other(infd)] \o SubSeq(cl_buf, cl_sent + 1, Len(cl_buf))
       /\ cl_written[infd] = cl_read[Other(infd)]
  /\ cl_pc = "read" => \A fd \in Fds : cl_written[Other(fd)] = cl_read[fd]

\* the payload of a second read of a direction is partly written
C7_Witness ==
  /\ cl_pc = "write"
  /\ cl_sent > 0 /\ cl_sent < Len(cl_buf)
  /\ Len(cl_read[Head(cl_events)]) > Len(cl_buf)
  /\ cl_written[Other(Head(cl_events))] # << >>

\* C8: when copyloop has returned, what it credited to the upload counter is
\* the number of bytes it read from fd1, and what it credited to the
\* download counter the number of bytes it read from fd2.
C8_CreditedEqualsRead ==
  cl_pc = "returned" =>
    /\ cl_credit.up = Len(cl_read["fd1"])
    /\ cl_credit.down = Len(cl_read["fd2"])

(***************************************************************************)
(* The traffic counters: update_traffic_stats called by several workers.   *)
(* A += on a counter is a load and a store.                                *)
(***************************************************************************)
\* what copyloop passes: (n, 0) or (0, n), n the size of a read
StatArgs ==
  {[uploaded |-> n, downloaded |-> 0] : n \in 1..MaxChunk}
  \cup {[uploaded |-> 0, downloaded |-> n] : n \in 1..MaxChunk}

\* a variant of the lock that lets every caller through
mutex_ignored(m) == TRUE

\* pthread_mutex_lock(&stats_mutex) returns when no thread holds the mutex
mutex_free(m) == m = 0

\* a worker calls update_traffic_stats(uploaded, downloaded)
UtCall(w) ==
  /\ ut_pc[w] = "idle"
  /\ updates < MaxUpdates
  /\ \E a \in StatArgs : ut_arg' = [ut_arg EXCEPT ![w] = a]
  /\ updates' = updates + 1
  /\ ut_pc' = [ut_pc EXCEPT ![w] = "lock"]
  /\ UNCHANGED <<total_upload_bytes, total_download_bytes, stats_mutex, ut_reg,
                 applied, reports>>
  /\ UNCHANGED <<sessVars, tcpVars, udpVars, poolVars>>

\* pthread_mutex_lock(&stats_mutex)
UtLock(w) ==
  /\ ut_pc[w] = "lock"
  /\ mutex_free(stats_mutex)
  /\ stats_mutex' = w
  /\ ut_pc' = [ut_pc EXCEPT ![w] = "load_up"]
  /\ UNCHANGED <<total_upload_bytes, total_download_bytes, ut_arg, ut_reg,
                 applied, updates, reports>>
  /\ UNCHANGED <<sessVars, tcpVars, udpVars, poolVars>>

\* total_upload_bytes += uploaded: the load
UtLoadUp(w) ==
  /\ ut_pc[w] = "load_up"
  /\ ut_reg' = [ut_reg EXCEPT ![w] = total_upload_bytes]
  /\ ut_pc' = [ut_pc EXCEPT ![w] = "store_up"]
  /\ UNCHANGED <<total_upload_bytes, total_download_bytes, stats_mutex, ut_arg,
                 applied, updates, reports>>
  /\ UNCHANGED <<sessVars, tcpVars, udpVars, poolVars>>

\* total_upload_bytes += uploaded: the store
UtStoreUp(w) ==
  /\ ut_pc[w] = "store_up"
  /\ total_upload_bytes' = ut_reg[w] + ut_arg[w].uploaded
  /\ applied' = [applied EXCEPT !.up = @ + ut_arg[w].uploaded]
  /\ ut_pc' = [ut_pc EXCEPT ![w] = "load_down"]
  /\ UNCHANGED <<total_download_bytes, stats_mutex, ut_arg, ut_reg, updates, reports>>
  /\ UNCHANGED <<sessVars, tcpVars, udpVars, poolVars>>

\* total_download_bytes += downloaded: the load
UtLoadDown(w) ==
  /\ ut_pc[w] = "load_down"
  /\ ut_reg' = [ut_reg EXCEPT ![w] = total_download_bytes]
  /\ ut_pc' = [ut_pc EXCEPT ![w] = "store_down"]
  /\ UNCHANGED <<total_upload_bytes, total_download_bytes, stats_mutex, ut_arg,
                 applied, updates, reports>>
  /\ UNCHANGED <<sessVars, tcpVars, udpVars, poolVars>>

\* total_download_bytes += downloaded: the store
UtStoreDown(w) ==
  /\ ut_pc[w] = "store_down"
  /\ total_download_bytes' = ut_reg[w] + ut_arg[w].downloaded
  /\ applied' = [applied EXCEPT !.down = @ + ut_arg[w].downloaded]
  /\ ut_pc' = [ut_pc EXCEPT ![w] = "report"]
  /\ UNCHANGED <<total_upload_bytes, stats_mutex, ut_arg, ut_reg, updates, reports>>
  /\ UNCHANGED <<sessVars, tcpVars, udpVars, poolVars>>

\* update_traffic_stats_ui(total_upload_bytes, total_download_bytes)
UtReport(w) ==
  /\ ut_pc[w] = "report"
  /\ reports' = Append(reports, [up |-> total_upload_bytes, down |-> total_download_bytes])
  /\ ut_pc' = [ut_pc EXCEPT ![w] = "unlock"]
  /\ UNCHANGED <<total_upload_bytes, total_download_bytes, stats_mutex, ut_arg,
                 ut_reg, applied, updates>>
  /\ UNCHANGED <<sessVars, tcpVars, udpVars, poolVars>>

\* pthread_mutex_unlock(&stats_mutex)
UtUnlock(w) ==
  /\ ut_pc[w] = "unlock"
  /\ stats_mutex' = 0
  /\ ut_pc' = [ut_pc EXCEPT ![w] = "idle"]
  /\ UNCHANGED <<total_upload_bytes, total_download_bytes, ut_arg, ut_reg,
                 applied, updates, reports>>
  /\ UNCHANGED <<sessVars, tcpVars, udpVars, poolVars>>

StatsNext ==
  \E w \in Workers :
    \/ UtCall(w)
    \/ UtLock(w)
    \/ UtLoadUp(w)
    \/ UtStoreUp(w)
    \/ UtLoadDown(w)
    \/ UtStoreDown(w)
    \/ UtReport(w)
    \/ UtUnlock(w)

SpecStats == RelaysInit /\ [][StatsNext]_vars

\* the positions of a call that has not reported yet
BeforeReport == {"lock", "load_up", "store_up", "load_down", "store_down", "report"}

\* at every moment each counter is the sum of the increments stored so far,
\* one report was made per update that got that far, and the reported
\* totals do not decrease in the order of the calls
SerializedUpdates ==
  /\ total_upload_bytes = applied.up
  /\ total_download_bytes = applied.down
  /\ Len(reports) = updates - Cardinality({w \in Workers : ut_pc[w] \in BeforeReport})
  /\ \A i, j \in 1..Len(reports) :
       i <= j => reports[i].up <= reports[j].up /\ reports[i].down <= reports[j].down
  /\ \A w, v \in Workers :
       w # v /\ ut_pc[w] \notin {"idle", "lock"} => ut_pc[v] \in {"idle", "lock"}

\* no step decreases a counter
CountersGrow ==
  /\ total_upload_bytes' >= total_upload_bytes
  /\ total_download_bytes' >= total_download_bytes

\* C9: with several workers updating concurrently the updates are
\* serialized: no increment is lost (each counter is the sum of the
\* increments applied so far), no counter ever decreases, and the report is
\* called once per update with totals that do not decrease in call order.
C9_CountersSerialized == [] SerializedUpdates /\ [][CountersGrow]_vars

\* one worker is inside its += while another waits for the mutex, after a
\* first update was reported
C9_Witness ==
  \E w, v \in Workers :
    /\ w # v
    /\ ut_pc[w] = "store_up" /\ ut_arg[w].uploaded > 0
    /\ ut_pc[v] = "lock"
    /\ Len(reports) >= 1

(***************************************************************************)
(* The UDP relay: one run of copy_loop_udp(tcp_fd, udp_fd).                *)
(***************************************************************************)
\* a variant of the comparison with the sense of strcmp's result inverted
compareSocks5Addrport_inverted(addrport1, addrport2) ==
  IF addrport1.type = addrport2.type /\ ~StrEq(addrport1.addr, addrport2.addr)
     /\ addrport1.port = addrport2.port
  THEN 0 ELSE 0 - 1

compareSocks5Addrport(addrport1, addrport2) ==
  IF addrport1.type = addrport2.type /\ StrEq(addrport1.addr, addrport2.addr)
     /\ addrport1.port = addrport2.port
  THEN 0 ELSE 0 - 1

compare_fd_socks5addr_by_fd(item1, item2) == IF item1.fd = item2.fd THEN 0 ELSE 1

compare_fd_socks5addr_by_addrport(item1, item2) ==
  compareSocks5Addrport(item1.addrport, item2.addrport)

\* sblist_search: the index, from 0, of the first item that compares 0 with
\* item, or -1
sblist_search(list, item, cmp(_, _)) ==
  LET hits == {i \in 1..Len(list) : cmp(list[i], item) = 0}
  IN  IF hits = {} THEN 0 - 1 ELSE MinOf(hits) - 1

sblist_item_from_index(list, idx) == list[idx + 1]

\* a variant of extract_udp_data that takes a fragment as a whole datagram
extract_udp_data_any_frag(buf) ==
  LET fail == [ret |-> 0 - EC_GENERAL_FAILURE, ap |-> NoAddrport] IN
  IF Len(buf) < 3 THEN fail
  ELSE IF B(buf, 0) # RSV \/ B(buf, 1) # RSV THEN fail
  ELSE LET pa == parse_addrport(Drop(buf, 3)) IN
       IF pa.ret < 0 THEN [ret |-> pa.ret, ap |-> NoAddrport]
       ELSE [ret |-> 3 + pa.ret, ap |-> pa.ap]

\* extract_udp_data: ret is the offset of the payload or minus an error
\* code, ap the address parsed
extract_udp_data(buf) ==
  LET fail == [ret |-> 0 - EC_GENERAL_FAILURE, ap |-> NoAddrport] IN
  IF Len(buf) < 3 THEN fail
  ELSE IF B(buf, 0) # RSV \/ B(buf, 1) # RSV THEN fail
  ELSE IF B(buf, 2) # 0 THEN fail
  ELSE LET pa == parse_addrport(Drop(buf, 3)) IN
       IF pa.ret < 0 THEN [ret |-> pa.ret, ap |-> NoAddrport]
       ELSE [ret |-> 3 + pa.ret, ap |-> pa.ap]

\* the Address a datagram carries, as the client wrote it: the type, the
\* address bytes and the port, between the 3 header bytes and the payload
AddressOf(buf) == SubSeq(buf, 4, extract_udp_data(buf).ret)

\* the header copy_loop_udp builds for a datagram of the flow of item
udp_reply_header(item) ==
  LET ap == item.addrport
      port == <<ap.port \div 256, ap.port % 256>>
      head == <<RSV, RSV, 0, ap.type>>
  IN  IF ap.type = SOCKS5_DNS
        THEN [ok |-> TRUE, hdr |-> head \o <<Len(CStr(ap.addr))>> \o CStr(ap.addr) \o port]
      ELSE IF ap.type = SOCKS5_IPV4
        THEN [ok |-> inet_pton4(ap.addr).ok, hdr |-> head \o inet_pton4(ap.addr).a \o port]
      ELSE [ok |-> inet_pton6(ap.addr).ok, hdr |-> head \o inet_pton6(ap.addr).a \o port]

\* the addresses of the client's datagrams: two ports of one IPv4 address,
\* a name, a name that differs from it after a 0 byte, the name that spells
\* the IPv4 address, an IPv6 address
UdpAddrForms ==
  { <<1, 8, 8, 8, 8, 0, 53>>, <<1, 8, 8, 8, 8, 0, 54>>,
    <<3, 1, 120, 0, 80>>, <<3, 3, 120, 0, 121, 0, 80>>,
    <<3, 7, 56, 46, 56, 46, 56, 46, 56, 0, 53>>,
    <<4>> \o [Zeros16 EXCEPT ![16] = 1] \o <<0, 53>> }

\* what recv on udp_fd may return: well-formed datagrams, and ones that are
\* fragments, have a reserved byte set, are cut short or of an unknown type
Datagrams ==
  {<<0, 0, 0>> \o a \o <<7>> : a \in UdpAddrForms}
  \cup { <<0, 0, 1, 1, 8, 8, 8, 8, 0, 53, 7>>, <<0, 1, 0, 1, 8, 8, 8, 8, 0, 53, 7>>,
         <<0, 0>>, <<0, 0, 0, 1, 8, 8>>, <<0, 0, 0, 9, 1, 1>> }

\* what the system calls made for a client datagram may do
DatagramEnvs ==
  [recv : {"ok", "EINTR", "error"}, connect_client : BOOLEAN, resolve : BOOLEAN,
   target : {"ok", "socket", "connect"}, kevent : BOOLEAN, send : BOOLEAN]

\* socket(): the lowest descriptor not in use; those up to 9 are taken
NewFd(open) == MinOf({f \in 10..(11 + MaxFlows) : f \notin open})

\* a call made while an event is handled: its descriptor, whether it
\* succeeded, the bytes it was given
Op(op, fd, ok, data) == [op |-> op, fd |-> fd, ok |-> ok, data |-> data]

\* the variables of the relay as one value, with the calls made so far for
\* the event being handled
UdpNow ==
  [pc |-> ul_pc, bound |-> udp_is_bound, list |-> sock_list, kq |-> kq_fds,
   open |-> open_fds, ctl |-> ctl_out, flows |-> flows, out |-> out_last,
   made |-> flow_addr, pins |-> pins, ops |-> << >>]

Did(st, o) == [st EXCEPT !.ops = Append(@, o)]

\* UDP_LOOP_END: close every socket of the list, sblist_free, close(kq)
UDP_LOOP_END(st) ==
  [st EXCEPT !.pc = "returned",
             !.open = @ \ {st.list[i].fd : i \in 1..Len(st.list)},
             !.list = << >>,
             !.kq = {}]

\* a variant of the control-connection branch that goes on after EOF
tcp_fd_readable_ignores_eof(st, read) ==
  IF read = "error" THEN UDP_LOOP_END(st) ELSE st

\* the body of `if (fd == tcp_fd)`
tcp_fd_readable(st, read) ==
  IF read \in {"eof", "error"} THEN UDP_LOOP_END(st) ELSE st

\* a variant of the pinning that leaves the flag as it was
udp_is_bound_left(b) == b

\* udp_is_bound = 1, after connect(udp_fd, &client_addr) succeeded
udp_is_bound_after_connect(b) == TRUE

\* the body of `if (fd == udp_fd)` when recv returns buf
udp_fd_readable(st, buf, env) ==
  IF env.recv = "EINTR" THEN st
  ELSE IF env.recv = "error" THEN UDP_LOOP_END(st)
  ELSE IF ~st.bound /\ ~env.connect_client
    THEN UDP_LOOP_END(Did(st, Op("connect_client", 0, FALSE, << >>)))
  ELSE
    LET st1 == IF st.bound THEN st
               ELSE Did([st EXCEPT !.pins = @ + 1,
                                   !.bound = udp_is_bound_after_connect(@)],
                        Op("connect_client", 0, TRUE, << >>))
        ex == extract_udp_data(buf)
        item == [fd |-> 0, addrport |-> ex.ap]
        idx == sblist_search(st1.list, item, compare_fd_socks5addr_by_addrport)
        send(s, fd) ==
          IF ~env.send THEN UDP_LOOP_END(Did(s, Op("send", fd, FALSE, Drop(buf, ex.ret))))
          ELSE [Did(s, Op("send", fd, TRUE, Drop(buf, ex.ret)))
                  EXCEPT !.flows = @ \cup {<<AddressOf(buf), fd>>}]
        replied(s) ==
          [Did(s, Op("send_error", 0, TRUE, send_error(EC_GENERAL_FAILURE)))
             EXCEPT !.ctl = Append(@, send_error(EC_GENERAL_FAILURE))]
    IN
    IF ex.ret < 0 THEN UDP_LOOP_END(st1)
    ELSE IF idx # 0 - 1 THEN send(st1, sblist_item_from_index(st1.list, idx).fd)
    ELSE IF ~env.resolve
      THEN UDP_LOOP_END(Did(st1, Op("resolve", 0, FALSE, ex.ap.addr)))
    ELSE
      LET st2 == Did(st1, Op("resolve", 0, TRUE, ex.ap.addr)) IN
      IF env.target = "socket"
        THEN UDP_LOOP_END(replied(Did(Did(st2, Op("socket", 0 - 1, FALSE, << >>)),
                                      Op("connect", 0 - 1, FALSE, << >>))))
      ELSE
        LET fd == NewFd(st2.open)
            opened == [Did(st2, Op("socket", fd, TRUE, << >>)) EXCEPT !.open = @ \cup {fd}]
            added == [Did(Did(opened, Op("connect", fd, TRUE, << >>)),
                          Op("sblist_add", fd, TRUE, << >>))
                        EXCEPT !.list = Append(@, [fd |-> fd, addrport |-> ex.ap]),
                               !.made = @ \cup {<<fd, AddressOf(buf)>>}]
        IN
        IF env.target = "connect"
          THEN UDP_LOOP_END(replied(Did(opened, Op("connect", fd, FALSE, << >>))))
        ELSE IF ~env.kevent
          THEN UDP_LOOP_END(Did(added, Op("kevent", fd, FALSE, << >>)))
        ELSE send([Did(added, Op("kevent", fd, TRUE, << >>)) EXCEPT !.kq = @ \cup {fd}], fd)

\* the body of `if (fd != tcp_fd && fd != udp_fd)`: recv is what recv on fd
\* returns ("end" for n <= 0), write whether the write to udp_fd succeeds
target_fd_readable(st, fd, recv, write) ==
  LET idx == sblist_search(st.list, [fd |-> fd, addrport |-> NoAddrport],
                           compare_fd_socks5addr_by_fd)
  IN
  IF idx = 0 - 1 THEN UDP_LOOP_END(st)
  ELSE LET h == udp_reply_header(sblist_item_from_index(st.list, idx)) IN
    IF ~h.ok THEN UDP_LOOP_END(st)
    ELSE IF recv = "end" THEN UDP_LOOP_END(Did(st, Op("recv", fd, FALSE, << >>)))
    ELSE IF ~write
      THEN UDP_LOOP_END(Did(Did(st, Op("recv", fd, TRUE, recv)),
                            Op("write", 0, FALSE, h.hdr \o recv)))
    ELSE [Did(Did(st, Op("recv", fd, TRUE, recv)), Op("write", 0, TRUE, h.hdr \o recv))
            EXCEPT !.out = h.hdr \o recv]

\* the relay takes the values of st
UdpBecomes(st) ==
  /\ ul_pc' = st.pc
  /\ udp_is_bound' = st.bound
  /\ sock_list' = st.list
  /\ kq_fds' = st.kq
  /\ open_fds' = st.open
  /\ ctl_out' = st.ctl
  /\ flows' = st.flows
  /\ out_last' = st.out
  /\ flow_addr' = st.made
  /\ pins' = st.pins

\* the record of an event handled: res is what the first call returned
\* ("ok", "EINTR", "error", "eof", "data", "end"), pre the relay before it
UdpEvent(kind, buf, res, fd, ops) ==
  [kind |-> kind, buf |-> buf, res |-> res, fd |-> fd, ops |-> ops,
   pre |-> [bound |-> udp_is_bound, list |-> sock_list, open |-> open_fds]]

NoUdpEvent ==
  [kind |-> "none", buf |-> << >>, res |-> "", fd |-> 0, ops |-> << >>,
   pre |-> [bound |-> TRUE, list |-> << >>, open |-> {}]]

\* The record of an event stands for one step: it is taken note of and
\* cleared before the next step.  UdpNote changes nothing of the relay.
UdpNoted == ul_last.kind = "none"

UdpNote ==
  /\ ~UdpNoted
  /\ ul_last' = NoUdpEvent
  /\ UNCHANGED <<ul_pc, udp_is_bound, sock_list, kq_fds, open_fds, ctl_out, flows,
                 out_last, flow_addr, pins>>
  /\ UNCHANGED <<sessVars, tcpVars, statVars, poolVars>>

\* kqueue() returns -1, or the kevent() that registers tcp_fd and udp_fd
UdpSetupFails ==
  /\ UdpNoted
  /\ ul_pc = "start"
  /\ UdpBecomes([UdpNow EXCEPT !.pc = "returned"])
  /\ ul_last' = NoUdpEvent
  /\ UNCHANGED <<sessVars, tcpVars, statVars, poolVars>>

\* both succeed; getpeername(udp_fd) succeeds (udp_svc_setup connected the
\* socket) or fails with ENOTCONN: udp_is_bound = 0
UdpSetup ==
  /\ UdpNoted
  /\ ul_pc = "start"
  /\ \E b \in BOOLEAN : UdpBecomes([UdpNow EXCEPT !.pc = "loop", !.bound = b])
  /\ ul_last' = NoUdpEvent
  /\ UNCHANGED <<sessVars, tcpVars, statVars, poolVars>>

\* kevent returns -1 with an errno other than EINTR and EAGAIN
UdpKeventFails ==
  /\ UdpNoted
  /\ ul_pc = "loop"
  /\ UdpBecomes(UDP_LOOP_END(UdpNow))
  /\ ul_last' = UdpEvent("kevent", << >>, "error", 0, << >>)
  /\ UNCHANGED <<sessVars, tcpVars, statVars, poolVars>>

\* an event of tcp_fd
TcpReadable ==
  /\ UdpNoted
  /\ ul_pc = "loop"
  /\ \E read \in {"eof", "error", "EINTR", "data"} :
       /\ UdpBecomes(tcp_fd_readable(UdpNow, read))
       /\ ul_last' = UdpEvent("tcp", << >>, read, 0, << >>)
  /\ UNCHANGED <<sessVars, tcpVars, statVars, poolVars>>

\* an event of udp_fd.  A datagram for a new address is taken while the
\* flow table has fewer than MaxFlows entries.
UdpReadable ==
  /\ UdpNoted
  /\ ul_pc = "loop"
  /\ \E buf \in Datagrams, env \in DatagramEnvs :
       /\ LET ex == extract_udp_data(buf) IN
          \/ ex.ret < 0
          \/ Len(sock_list) < MaxFlows
          \/ sblist_search(sock_list, [fd |-> 0, addrport |-> ex.ap],
                           compare_fd_socks5addr_by_addrport) # 0 - 1
       /\ LET st == udp_fd_readable(UdpNow, buf, env) IN
          /\ UdpBecomes(st)
          /\ ul_last' = UdpEvent("datagram", buf, env.recv, 0, st.ops)
  /\ UNCHANGED <<sessVars, tcpVars, statVars, poolVars>>

\* an event of a target socket registered with the kqueue
TargetReadable ==
  /\ UdpNoted
  /\ ul_pc = "loop"
  /\ \E fd \in kq_fds, recv \in {"end", <<9>>}, write \in BOOLEAN :
       LET st == target_fd_readable(UdpNow, fd, recv, write) IN
       /\ UdpBecomes(st)
       /\ ul_last' = UdpEvent("target", << >>, IF recv = "end" THEN "end" ELSE "data",
                              fd, st.ops)
  /\ UNCHANGED <<sessVars, tcpVars, statVars, poolVars>>

UdpNext ==
  \/ UdpNote
  \/ UdpSetupFails
  \/ UdpSetup
  \/ UdpKeventFails
  \/ TcpReadable
  \/ UdpReadable
  \/ TargetReadable

SpecUdp == RelaysInit /\ [][UdpNext]_vars

\* C6: after the success reply that precedes the relay, the relay writes no
\* SOCKS reply on the control connection, whatever fails in it.
C6_NoReplyDuringRelay == ctl_out = << >>

\* C10: the flow table holds no socket twice and no address (type, address,
\* port) twice, and every Address a client datagram carried was sent on one
\* socket only.
C10_OneSocketPerAddress ==
  /\ \A i, j \in 1..Len(sock_list) :
       i # j => /\ sock_list[i].fd # sock_list[j].fd
                /\ sock_list[i].addrport # sock_list[j].addrport
  /\ \A f, g \in flows : f[1] = g[1] => f[2] = g[2]

\* the table is full, datagrams went out for more Addresses than there are
\* sockets, and a reply of a target was passed on to the client
C10_Witness ==
  /\ Len(sock_list) = MaxFlows
  /\ Cardinality(flows) > MaxFlows
  /\ {f[2] : f \in flows} = {sock_list[i].fd : i \in 1..Len(sock_list)}
  /\ out_last # << >>

\* a client datagram of the layout RSV RSV FRAG Address payload, FRAG = 0
WellFormedDatagram(buf) ==
  /\ Len(buf) >= 4
  /\ buf[1] = 0 /\ buf[2] = 0 /\ buf[3] = 0
  /\ buf[4] \in {SOCKS5_IPV4, SOCKS5_DNS, SOCKS5_IPV6}
  /\ AddrComplete(Drop(buf, 3))

\* the sockets of the flow table before the last event
PreFds == {ul_last.pre.list[i].fd : i \in 1..Len(ul_last.pre.list)}

\* the calls made for the last event, but for the pinning of the client
FlowOps ==
  LET isFlow(o) == o.op # "connect_client" IN SelectSeq(ul_last.ops, isFlow)

OpNames(ops) == [i \in 1..Len(ops) |-> ops[i].op]

\* the last event is a well-formed client datagram that was received and,
\* where the client had to be pinned first, after that succeeded
DatagramTaken ==
  /\ ul_last.kind = "datagram" /\ ul_last.res = "ok"
  /\ WellFormedDatagram(ul_last.buf)
  /\ \A i \in 1..Len(ul_last.ops) :
       ul_last.ops[i].op = "connect_client" => ul_last.ops[i].ok

\* C11: for a well-formed client datagram with destination D: if the flow
\* table holds a socket s made for D, the payload is sent once on s and no
\* socket is created; otherwise a send is made only as the last of resolve,
\* socket, connect, insertion in the table, registration, send - on the new
\* socket, with the payload - and is made whenever nothing fails.
C11_SendOnFlowOfDestination ==
  DatagramTaken =>
    LET D == AddressOf(ul_last.buf)
        payload == Drop(ul_last.buf, 3 + Len(D))
        known == {f \in flow_addr : f[2] = D /\ f[1] \in PreFds}
        isSend(o) == o.op = "send"
        sends == SelectSeq(FlowOps, isSend)
    IN
    IF known # {}
    THEN /\ Len(FlowOps) = 1 /\ Len(sends) = 1
         /\ \E f \in known : sends[1].fd = f[1]
         /\ sends[1].data = payload
         /\ open_fds \subseteq ul_last.pre.open
    ELSE /\ Len(sends) <= 1
         /\ ul_pc = "loop" => Len(sends) = 1
         /\ Len(sends) = 1 =>
              /\ OpNames(FlowOps) =
                   <<"resolve", "socket", "connect", "sblist_add", "kevent", "send">>
              /\ \A i \in 1..5 : FlowOps[i].ok
              /\ sends[1].fd \notin ul_last.pre.open
              /\ \A i \in 2..5 : FlowOps[i].fd = sends[1].fd
              /\ <<sends[1].fd, D>> \in flow_addr
              /\ sends[1].data = payload

\* the write that forwarded a target's datagram to the client, if the last
\* event made one
ClientWrites ==
  LET isWrite(o) == o.op = "write" /\ o.ok IN SelectSeq(ul_last.ops, isWrite)

\* C12: every datagram sent to the client is emitted for a socket of the flow
\* table, and it is the three header bytes 00 00 00, then exactly the Address
\* the client used in the datagram that created that socket's flow (type,
\* address bytes and port, a name of any byte content included), then the
\* bytes received from the target.
C12_ReplyCarriesClientAddress ==
  (ul_last.kind = "target" /\ ClientWrites # << >>) =>
    /\ ul_last.fd \in PreFds
    /\ \E f \in flow_addr :
         /\ f[1] = ul_last.fd
         /\ ClientWrites[1].data = <<0, 0, 0>> \o f[2] \o <<9>>
         /\ out_last = ClientWrites[1].data

\* C13: once the client address is pinned, the pinning never changes: the
\* relay connects udp_fd at most once, never when the socket was pinned at
\* setup or by an earlier datagram, and the pinned flag, once set, stays set
\* while the relay runs.
C13_PinnedOnce ==
  /\ [](pins <= 1)
  /\ [][(ul_pc = "loop" /\ udp_is_bound) => (udp_is_bound' /\ pins' = pins)]_vars

\* the first datagram pinned the client, and a later datagram was handled
C13_Witness ==
  /\ pins = 1
  /\ udp_is_bound
  /\ ul_last.kind = "datagram"
  /\ ul_last.res = "ok"
  /\ ul_last.pre.bound

Fragmented(buf) == Len(buf) >= 3 /\ (buf[1] # 0 \/ buf[2] # 0 \/ buf[3] # 0)

\* C15: a client datagram with FRAG # 0, or with a reserved byte that is not
\* 0, is not forwarded and creates no flow (no resolve, socket, table entry,
\* registration or send happens for it); the relay ends and the sockets of
\* all flows are closed.
C15_FragmentEndsRelay ==
  (ul_last.kind = "datagram" /\ ul_last.res = "ok" /\ Fragmented(ul_last.buf)) =>
    /\ FlowOps = << >>
    /\ ul_pc = "returned"
    /\ sock_list = << >>
    /\ PreFds \cap open_fds = {}

\* a fragment arrived while a flow was open
C15_Witness ==
  /\ ul_last.kind = "datagram"
  /\ ul_last.res = "ok"
  /\ Len(ul_last.buf) > 3
  /\ ul_last.buf[3] # 0
  /\ ul_last.pre.list # << >>
  /\ ul_pc = "returned"

\* C16: when the UDP relay has ended, by whatever exit path, every target
\* socket created during the associate is closed and the multiplexer is
\* closed.
C16_AllClosedAtEnd ==
  ul_pc = "returned" => (open_fds = {} /\ kq_fds = {})

(***************************************************************************)
(* The acceptor and its workers: socks_main's while(1) loop, collect, and   *)
(* the end of clientthread (breakloop).  The session's work up to           *)
(* breakloop is one step of its worker here.                                *)
(***************************************************************************)
\* the variables of the sessions other than done and cfd_open
sessRest == <<conf, auth_ips, wr_holder, pc, state, caddr, remote, cred_ok,
              wl_noauth, after_auth, last>>

\* a variant of sblist_delete that leaves the list as it is
sblist_delete_nothing(list, i) == list

\* sblist_delete(threads, i), i counted from 1
sblist_delete(list, i) == SubSeq(list, 1, i - 1) \o SubSeq(list, i + 1, Len(list))

InThreads(s) == \E i \in 1..Len(threads) : threads[i] = s

\* collect: i < sblist_getsize(threads) is false, collect returns
CollectEnd ==
  /\ acc_pc = "collect"
  /\ col_i > Len(threads)
  /\ acc_pc' = "malloc"
  /\ UNCHANGED <<col_i, curr, threads, th_pc, mem, joins, frees, done, cfd_open>>
  /\ UNCHANGED <<sessRest, tcpVars, statVars, udpVars>>

\* collect: thread->done is read as 0, i++.  done is a plain int the worker
\* writes without synchronisation: the acceptor may read 0 after the store.
CollectSkip ==
  /\ acc_pc = "collect"
  /\ col_i <= Len(threads)
  /\ col_i' = col_i + 1
  /\ UNCHANGED <<acc_pc, curr, threads, th_pc, mem, joins, frees, done, cfd_open>>
  /\ UNCHANGED <<sessRest, tcpVars, statVars, udpVars>>

\* collect: thread->done is read as 1, pthread_join is called
CollectSeesDone ==
  /\ acc_pc = "collect"
  /\ col_i <= Len(threads)
  /\ done[threads[col_i]]
  /\ acc_pc' = "join"
  /\ UNCHANGED <<col_i, curr, threads, th_pc, mem, joins, frees, done, cfd_open>>
  /\ UNCHANGED <<sessRest, tcpVars, statVars, udpVars>>

\* collect: pthread_join returns, which it does when the worker has
\* returned; sblist_delete(threads, i); free(thread)
CollectJoin ==
  /\ acc_pc = "join"
  /\ LET s == threads[col_i] IN
     /\ th_pc[s] = "exited"
     /\ joins' = [joins EXCEPT ![s] = @ + 1]
     /\ frees' = [frees EXCEPT ![s] = @ + 1]
     /\ mem' = [mem EXCEPT ![s] = "freed"]
  /\ threads' = sblist_delete(threads, col_i)
  /\ acc_pc' = "collect"
  /\ UNCHANGED <<col_i, curr, th_pc, done, cfd_open>>
  /\ UNCHANGED <<sessRest, tcpVars, statVars, udpVars>>

\* malloc returns NULL: oom, usleep, continue
MallocFails ==
  /\ acc_pc = "malloc"
  /\ acc_pc' = "collect"
  /\ col_i' = 1
  /\ UNCHANGED <<curr, threads, th_pc, mem, joins, frees, done, cfd_open>>
  /\ UNCHANGED <<sessRest, tcpVars, statVars, udpVars>>

\* curr = malloc(..); curr->done = 0
Malloc ==
  /\ acc_pc = "malloc"
  /\ \E s \in Sessions :
       /\ mem[s] = "unalloc"
       /\ \A r \in Sessions : r < s => mem[r] # "unalloc"
       /\ curr' = s
       /\ mem' = [mem EXCEPT ![s] = "live"]
       /\ done' = [done EXCEPT ![s] = FALSE]
  /\ acc_pc' = "waitclient"
  /\ UNCHANGED <<col_i, threads, th_pc, joins, frees, cfd_open>>
  /\ UNCHANGED <<sessRest, tcpVars, statVars, udpVars>>

\* server_waitclient fails: free(curr), usleep, continue
WaitclientFails ==
  /\ acc_pc = "waitclient"
  /\ mem' = [mem EXCEPT ![curr] = "unalloc"]
  /\ curr' = 0
  /\ acc_pc' = "collect"
  /\ col_i' = 1
  /\ UNCHANGED <<threads, th_pc, joins, frees, done, cfd_open>>
  /\ UNCHANGED <<sessRest, tcpVars, statVars, udpVars>>

\* server_waitclient returns a client: curr->client = c
Waitclient ==
  /\ acc_pc = "waitclient"
  /\ cfd_open' = [cfd_open EXCEPT ![curr] = TRUE]
  /\ acc_pc' = "sblist_add"
  /\ UNCHANGED <<col_i, curr, threads, th_pc, mem, joins, frees, done>>
  /\ UNCHANGED <<sessRest, tcpVars, statVars, udpVars>>

\* sblist_add(threads, &curr) fails: close(curr->client.fd), free(curr), oom
SblistAddFails ==
  /\ acc_pc = "sblist_add"
  /\ cfd_open' = [cfd_open EXCEPT ![curr] = FALSE]
  /\ mem' = [mem EXCEPT ![curr] = "unalloc"]
  /\ curr' = 0
  /\ acc_pc' = "collect"
  /\ col_i' = 1
  /\ UNCHANGED <<threads, th_pc, joins, frees, done>>
  /\ UNCHANGED <<sessRest, tcpVars, statVars, udpVars>>

\* sblist_add(threads, &curr) succeeds
SblistAdd ==
  /\ acc_pc = "sblist_add"
  /\ threads' = Append(threads, curr)
  /\ acc_pc' = "pthread_create"
  /\ UNCHANGED <<col_i, curr, th_pc, mem, joins, frees, done, cfd_open>>
  /\ UNCHANGED <<sessRest, tcpVars, statVars, udpVars>>

\* pthread_create fails: a log line, and the loop goes on
PthreadCreateFails ==
  /\ acc_pc = "pthread_create"
  /\ curr' = 0
  /\ acc_pc' = "collect"
  /\ col_i' = 1
  /\ UNCHANGED <<threads, th_pc, mem, joins, frees, done, cfd_open>>
  /\ UNCHANGED <<sessRest, tcpVars, statVars, udpVars>>

\* pthread_create starts clientthread(curr)
PthreadCreate ==
  /\ acc_pc = "pthread_create"
  /\ th_pc' = [th_pc EXCEPT ![curr] = "running"]
  /\ curr' = 0
  /\ acc_pc' = "collect"
  /\ col_i' = 1
  /\ UNCHANGED <<threads, mem, joins, frees, done, cfd_open>>
  /\ UNCHANGED <<sessRest, tcpVars, statVars, udpVars>>

\* clientthread reaches breakloop (the client closed its connection or the
\* session hit an error or its relay returned): close(t->client.fd)
WorkerClose(s) ==
  /\ th_pc[s] = "running"
  /\ th_pc' = [th_pc EXCEPT ![s] = "closed"]
  /\ cfd_open' = [cfd_open EXCEPT ![s] = FALSE]
  /\ UNCHANGED <<acc_pc, col_i, curr, threads, mem, joins, frees, done>>
  /\ UNCHANGED <<sessRest, tcpVars, statVars, udpVars>>

\* t->done = 1
WorkerDone(s) ==
  /\ th_pc[s] = "closed"
  /\ th_pc' = [th_pc EXCEPT ![s] = "flagged"]
  /\ done' = [done EXCEPT ![s] = TRUE]
  /\ UNCHANGED <<acc_pc, col_i, curr, threads, mem, joins, frees, cfd_open>>
  /\ UNCHANGED <<sessRest, tcpVars, statVars, udpVars>>

\* return 0
WorkerReturn(s) ==
  /\ th_pc[s] = "flagged"
  /\ th_pc' = [th_pc EXCEPT ![s] = "exited"]
  /\ UNCHANGED <<acc_pc, col_i, curr, threads, mem, joins, frees, done, cfd_open>>
  /\ UNCHANGED <<sessRest, tcpVars, statVars, udpVars>>

PoolNext ==
  \/ CollectEnd
  \/ CollectSkip
  \/ CollectSeesDone
  \/ CollectJoin
  \/ MallocFails
  \/ Malloc
  \/ WaitclientFails
  \/ Waitclient
  \/ SblistAddFails
  \/ SblistAdd
  \/ PthreadCreateFails
  \/ PthreadCreate
  \/ \E s \in Sessions :
    \/ WorkerClose(s)
    \/ WorkerDone(s)
    \/ WorkerReturn(s)

SpecPool == RelaysInit /\ [][PoolNext]_vars

\* the acceptor's call of pthread_create returns; a worker that was started
\* is scheduled, and its session comes to breakloop (the client closes its
\* connection or the session hits an error)
SpecPoolFair ==
  /\ SpecPool
  /\ WF_vars(PthreadCreate \/ PthreadCreateFails)
  /\ \A s \in Sessions :
       WF_vars(WorkerClose(s)) /\ WF_vars(WorkerDone(s)) /\ WF_vars(WorkerReturn(s))

\* what holds of a session whose done is set or that was freed
DoneAfterCloseFreedAfterExit ==
  \A s \in Sessions :
    /\ done[s] => (~cfd_open[s] /\ th_pc[s] \in {"flagged", "exited"})
    /\ th_pc[s] \in {"closed", "flagged", "exited"} => ~cfd_open[s]
    /\ mem[s] = "freed" => (th_pc[s] = "exited" /\ ~InThreads(s))
    /\ joins[s] <= 1 /\ frees[s] <= 1

\* a session is joined, taken from the list and freed in a step of collect,
\* for the entry collect is at, whose done is set; and after it set done the
\* worker only returns
ReapedByCollect ==
  \A s \in Sessions :
    /\ (joins'[s] # joins[s] \/ frees'[s] # frees[s] \/ (InThreads(s) /\ ~InThreads(s)'))
         => (acc_pc = "join" /\ threads[col_i] = s /\ done[s] /\ th_pc[s] = "exited")
    /\ (th_pc[s] = "flagged" /\ th_pc'[s] # "flagged")
         => (th_pc'[s] = "exited" /\ done'[s] /\ UNCHANGED <<cfd_open, mem, threads>>)

\* C23: a session is joined, removed from the worker list and freed only by
\* the acceptor (in collect) and only after its worker set done; the worker
\* sets done only after it closed the client socket and does nothing with
\* the session afterwards; each session is joined and freed at most once.
C23_ReapedOnceAfterDone == [] DoneAfterCloseFreedAfterExit /\ [][ReapedByCollect]_vars

\* one session was reaped while the worker of another is still running
C23_Witness ==
  \E s, t \in Sessions :
    /\ joins[s] = 1 /\ frees[s] = 1 /\ mem[s] = "freed" /\ ~InThreads(s)
    /\ th_pc[t] = "running" /\ InThreads(t)

\* C24: of every session that was added to the worker list - the ones whose
\* worker could not be started included - the client socket is eventually
\* closed and done eventually set (so that a later pass of collect removes
\* it), given that started workers run and their sessions come to an end.
C24_ListedSessionsFinish ==
  \A s \in Sessions : [](InThreads(s) => <>(done[s] /\ ~cfd_open[s]))

(***************************************************************************)
(* The course of a session and of the whitelist, checked under Spec.        *)
(***************************************************************************)
Rank(st) ==
  CASE st = SS_1_CONNECTED -> 1
    [] st = SS_2_NEED_AUTH -> 2
    [] st = SS_3_AUTHED -> 3

Relaying(s) == pc[s] \in {"relay_tcp", "relay_udp"}

\* a request is handled, and a relay runs, in SS_3_AUTHED only, and the
\* step that handled a request left the session relaying or terminated
RequestInAuthedIsLast ==
  /\ \A s \in Sessions : (Relaying(s) \/ remote[s] # "none") => state[s] = SS_3_AUTHED
  /\ last.kind = "request" =>
       /\ state[last.s] = SS_3_AUTHED
       /\ Relaying(last.s) \/ Terminated(last.s)

\* t->state never goes back; a message is handled as a request only by a
\* session in SS_3_AUTHED that handled none before; a relaying session only
\* terminates; a terminated session stays so
SessionAdvances ==
  \A s \in Sessions :
    /\ Rank(state'[s]) >= Rank(state[s])
    /\ (last'.kind = "request" /\ last'.s = s /\ last' # last)
         => (pc[s] = "recv" /\ state[s] = SS_3_AUTHED)
    /\ Relaying(s) => (pc'[s] = pc[s] \/ (pc'[s] = "done" /\ done'[s] /\ ~cfd_open'[s]))
    /\ pc[s] = "done" => (pc'[s] = "done" /\ done'[s] /\ ~cfd_open'[s])

\* C26: a session's state only advances CONNECTED, NEED_AUTH (may be
\* skipped), AUTHED and never goes back; a CONNECT or UDP_ASSOCIATE is
\* executed only in AUTHED; a session handles at most one request: after a
\* message was received in AUTHED the session relays or has terminated, and
\* a relay ends in the terminal state only.
C26_OneRequestInAuthed == [] RequestInAuthedIsLast /\ [][SessionAdvances]_vars

\* a session went through NEED_AUTH to AUTHED, and its request failed
C26_Witness ==
  /\ last.kind = "request"
  /\ conf.has_user /\ cred_ok[last.s]
  /\ last.ret < 0
  /\ Terminated(last.s)

\* every entry of the whitelist is the address of a session that passed the
\* credentials check, and the whitelist is in use only with -1
WhitelistedHavePassed ==
  /\ auth_ips # << >> => conf.auth_once
  /\ \A i \in 1..Len(auth_ips) : \E s \in Sessions : cred_ok[s] /\ caddr[s] = auth_ips[i]

\* the whitelist changes only by an entry added at its end, in the step of
\* a session that passed the credentials check and holds the write lock;
\* the handlers of a greeting and of a credentials message leave it alone
WhitelistGrows ==
  /\ IsPrefix(auth_ips, auth_ips')
  /\ auth_ips' # auth_ips =>
       \E s \in Sessions :
         /\ pc[s] = "wradd" /\ cred_ok[s] /\ wr_holder = s
         /\ auth_ips' = Append(auth_ips, caddr[s])
  /\ last'.kind \in {"greeting", "creds"} => auth_ips' = auth_ips

\* C27: the whitelist only grows, and an address is in it only if a session
\* from that address passed the credentials check before, with auth-once
\* enabled; a failed or malformed credentials message and an admission by
\* NoAuth add no entry.
C27_WhitelistOnlyGrowsByAuthentication ==
  [] WhitelistedHavePassed /\ [][WhitelistGrows]_vars

\* two addresses are whitelisted, each after its own authentication
C27_Witness ==
  /\ Len(auth_ips) = 2
  /\ \A s \in Sessions : cred_ok[s] /\ pc[s] = "recv"

====
